---- MODULE Spec2Model ----
(***************************************************************************)
(* Model of the RAG pipeline: the orchestrator (rag_system.py), the vector *)
(* store manager (vector_store.py), the chat client (groq_client.py), the  *)
(* document processor (document_processor.py) and the helpers of utils.py. *)
(*                                                                         *)
(* Strings are modelled as sequences of parts: a literal part is a TLA+    *)
(* string, an interpolated value is the value itself.  The Hindi literals  *)
(* of the source are written in transliteration.                           *)
(***************************************************************************)
EXTENDS Integers, Sequences, FiniteSets, TLC

\* ------------------------------------------------------------------ bounds
MaxIndex == 2        \* chunks the persistent index may hold
MaxBatch == 2        \* paths in one ingest request
MaxPaths == 3        \* paths in one call of the document processor

\* ------------------------------------------------- configuration (config.py)
\* The values AppConfig.from_env reads from CHUNK_SIZE, CHUNK_OVERLAP and
\* SIMILARITY_SEARCH_K, counted in pieces of text; 0 <= overlap < size.
ChunkSize == 3
ChunkOverlap == 1
SimilaritySearchK == 2
\* hindi_threshold = 0.3 as the fraction ThresholdNum / ThresholdDen
ThresholdNum == 3
ThresholdDen == 10

\* ------------------------------------------------------------- sequences
RECURSIVE SeqsUpTo(_, _)
SeqsUpTo(S, n) ==
    IF n = 0 THEN {<<>>}
    ELSE LET shorter == SeqsUpTo(S, n - 1)
         IN shorter \cup {Append(s, x) : s \in {t \in shorter : Len(t) = n - 1}, x \in S}

RECURSIVE Flatten(_)
Flatten(ss) == IF ss = <<>> THEN <<>> ELSE Head(ss) \o Flatten(Tail(ss))

Reverse(s) == [i \in 1..Len(s) |-> s[Len(s) + 1 - i]]

\* ------------------------------------------------------ utils.detect_language
\* Character classes of a question: "L" a Latin letter, "H" a Devanagari
\* letter, "M" a Devanagari sign that is in U+0900..U+097F but not
\* alphabetic (matra, virama, digit), "D" any other non-alphabetic character.
CharClasses == {"L", "H", "M", "D"}

RECURSIVE CountIn(_, _)
CountIn(text, S) ==
    IF text = <<>> THEN 0
    ELSE (IF Head(text) \in S THEN 1 ELSE 0) + CountIn(Tail(text), S)

\* detect_language as it would be with >= in place of >
detect_language_NonStrict(text) ==
    LET hindi_chars == CountIn(text, {"H", "M"})
        total_chars == CountIn(text, {"L", "H"})
    IN IF total_chars = 0 THEN "english"
       ELSE IF hindi_chars * ThresholdDen >= ThresholdNum * total_chars
            THEN "hindi" ELSE "english"

detect_language(text) ==
    LET hindi_chars == CountIn(text, {"H", "M"})
        total_chars == CountIn(text, {"L", "H"})
    IN IF total_chars = 0 THEN "english"
       ELSE IF hindi_chars * ThresholdDen > ThresholdNum * total_chars
            THEN "hindi" ELSE "english"

\* --------------------------------------------------------- utils messages
no_docs_error(language) ==
    IF language = "hindi" THEN <<"kripaya pahle dastavez upload karke process karen!">>
    ELSE <<"Please upload and process documents first!">>

not_initialized_msg(language) ==
    IF language = "hindi" THEN <<"system taiyar nahin hai!">>
    ELSE <<"System not initialized!">>

handle_api_error(error, language) ==
    IF language = "hindi" THEN <<"API truti: ">> \o error
    ELSE <<"API Error: ">> \o error

\* handle_connection_error as it would be if it ignored the language
handle_connection_error_Unlocalised(error, language) ==
    <<"Connection Error: ">> \o error

handle_connection_error(error, language) ==
    IF language = "hindi" THEN <<"connection truti: ">> \o error
    ELSE <<"Connection Error: ">> \o error

handle_processing_error(error) == <<"Processing Error: ">> \o error

\* The literal parts in which the substring "Error" occurs.
ErrorParts == {"API Error: ", "Connection Error: ", "Processing Error: ",
               "API Error ", "Ollama Error: ", "Error"}

ContainsError(s) == \E i \in 1..Len(s) : s[i] \in ErrorParts

\* str() of a non-negative integer, as a sequence of digit parts
Digit == <<"0", "1", "2", "3", "4", "5", "6", "7", "8", "9">>

RECURSIVE Str(_)
Str(n) == IF n < 10 THEN <<Digit[n + 1]>>
          ELSE Str(n \div 10) \o <<Digit[(n % 10) + 1]>>

\* -------------------------------------------------------------- the inputs
Tokens == {"t1", "t2"}

\* A file on disk: its path as the segments between the dots, what its
\* loader does ("ok" or "raise") and the texts of the documents it yields
\* (one per page for a PDF, one for a text file).
fTxt == [name |-> <<"a", "txt">>, load |-> "ok", pages |-> << <<"t1">> >>]
fPdf == [name |-> <<"b", "PDF">>, load |-> "ok",
         pages |-> << <<"t2", "t2", "t2", "t2">>, <<>> >>]
fEmpty == [name |-> <<"e", "txt">>, load |-> "ok", pages |-> << <<>> >>]
fBad == [name |-> <<"c", "pdf">>, load |-> "raise", pages |-> <<>>]
fDocx == [name |-> <<"d", "docx">>, load |-> "ok", pages |-> << <<"t1">> >>]
\* a file whose name holds no dot
fNoDot == [name |-> <<"pdf">>, load |-> "ok", pages |-> << <<"t2">> >>]
Files == {fTxt, fPdf, fEmpty, fBad, fDocx, fNoDot}

\* The files offered to the orchestrator: one that yields one chunk, one that
\* yields two, one that is not supported.
IngestFiles == {fTxt, fPdf, fDocx}
Batches == SeqsUpTo(IngestFiles, MaxBatch)
PathLists == SeqsUpTo(Files, MaxPaths)

\* A question: its characters by class and the token the embedding stub
\* sees in it.  The texts: empty, Latin, Devanagari.
QuestionTexts == {<<>>, <<"L">>, <<"H">>}
Questions == [chars : QuestionTexts, tok : Tokens]

\* ------------------------------------------------- document_processor.py
\* str.lower() on the extensions that occur
Lower(s) == CASE s = "PDF" -> "pdf"
              [] s = "TXT" -> "txt"
              [] OTHER -> s

\* the path as it is interpolated into a message
PathStr(name) == <<name[1]>> \o Flatten([i \in 1..(Len(name) - 1) |-> <<".", name[i + 1]>>])

\* '.' + file_path.split('.')[-1].lower(), then the loader chosen
get_loader(file) ==
    LET file_extension == <<".", Lower(file.name[Len(file.name)])>>
    IN IF file_extension = <<".", "pdf">> THEN "PyPDFLoader"
       ELSE IF file_extension = <<".", "txt">> THEN "TextLoader"
       ELSE "None"

\* DocumentProcessor.validate_file_format
validate_file_format(filename) ==
    LET file_extension == <<".", Lower(filename[Len(filename)])>>
        supported_formats == {<<".", "pdf">>, <<".", "txt">>}
    IN file_extension \in supported_formats

\* load_documents as it would be if the first failing path ended the batch
RECURSIVE load_documents_Abort(_)
load_documents_Abort(file_paths) ==
    IF file_paths = <<>> THEN [documents |-> <<>>, errors |-> <<>>]
    ELSE LET f == Head(file_paths)
             rest == load_documents_Abort(Tail(file_paths))
         IN IF get_loader(f) = "None"
            THEN [documents |-> <<>>,
                  errors |-> << <<"Unsupported file type: ">> \o PathStr(f.name) >>]
            ELSE IF f.load = "raise"
            THEN [documents |-> <<>>,
                  errors |-> << <<"Error loading ">> \o PathStr(f.name) \o <<": ", "load failed">> >>]
            ELSE [documents |-> [i \in 1..Len(f.pages) |-> [src |-> f.name, text |-> f.pages[i]]]
                                \o rest.documents,
                  errors |-> rest.errors]

RECURSIVE load_documents(_)
load_documents(file_paths) ==
    IF file_paths = <<>> THEN [documents |-> <<>>, errors |-> <<>>]
    ELSE LET f == Head(file_paths)
             rest == load_documents(Tail(file_paths))
             loader == get_loader(f)
         IN IF loader = "None"
            THEN [documents |-> rest.documents,
                  errors |-> << <<"Unsupported file type: ">> \o PathStr(f.name) >> \o rest.errors]
            ELSE IF f.load = "raise"
            THEN [documents |-> rest.documents,
                  errors |-> << <<"Error loading ">> \o PathStr(f.name) \o <<": ", "load failed">> >>
                             \o rest.errors]
            ELSE [documents |-> [i \in 1..Len(f.pages) |-> [src |-> f.name, text |-> f.pages[i]]]
                                \o rest.documents,
                  errors |-> rest.errors]

\* RecursiveCharacterTextSplitter(chunk_size = S, chunk_overlap = O,
\* length_function = len) on a text of characters, " " standing for the
\* white space at which the splitter cuts first; below it the splitter cuts
\* between characters.

\* str.strip()
RECURSIVE LStrip(_)
LStrip(s) == IF s # <<>> /\ Head(s) = " " THEN LStrip(Tail(s)) ELSE s

Strip(s) == Reverse(LStrip(Reverse(LStrip(s))))

\* the split at the separator, the separator kept at the start of the piece
\* that follows it, empty pieces dropped
RECURSIVE Pieces(_, _)
Pieces(text, cur) ==
    IF text = <<>> THEN (IF cur = <<>> THEN <<>> ELSE <<cur>>)
    ELSE IF Head(text) = " "
    THEN (IF cur = <<>> THEN <<>> ELSE <<cur>>) \o Pieces(Tail(text), <<" ">>)
    ELSE Pieces(Tail(text), Append(cur, Head(text)))

TotalLen(current_doc) == Len(Flatten(current_doc))

\* the pieces kept for the next chunk: the first ones are dropped while more
\* than O characters are held, or the next piece d would not fit
RECURSIVE PopFront(_, _, _, _)
PopFront(current_doc, d, S, O) ==
    IF \/ TotalLen(current_doc) > O
       \/ TotalLen(current_doc) + Len(d) > S /\ TotalLen(current_doc) > 0
    THEN PopFront(Tail(current_doc), d, S, O)
    ELSE current_doc

\* the chunk made of the pieces held, stripped; none when nothing is left
JoinDocs(current_doc) ==
    LET t == Strip(Flatten(current_doc)) IN IF t = <<>> THEN <<>> ELSE <<t>>

\* the pieces merged into chunks of at most S characters
RECURSIVE MergeSplits(_, _, _, _)
MergeSplits(splits, current_doc, S, O) ==
    IF splits = <<>> THEN JoinDocs(current_doc)
    ELSE LET d == Head(splits)
         IN IF TotalLen(current_doc) + Len(d) > S /\ current_doc # <<>>
            THEN JoinDocs(current_doc)
                 \o MergeSplits(Tail(splits), Append(PopFront(current_doc, d, S, O), d), S, O)
            ELSE MergeSplits(Tail(splits), Append(current_doc, d), S, O)

\* the split between characters: a piece shorter than S is merged, and
\* when S = 1 every character is a chunk as it is
SplitChars(text, S, O) ==
    IF S > 1 THEN MergeSplits([i \in 1..Len(text) |-> <<text[i]>>], <<>>, S, O)
    ELSE [i \in 1..Len(text) |-> <<text[i]>>]

\* the pieces of the split at the separator: the short ones are collected
\* and merged, a piece of S characters or more is split between characters
RECURSIVE Assemble(_, _, _, _)
Assemble(splits, good_splits, S, O) ==
    LET merged == IF good_splits = <<>> THEN <<>> ELSE MergeSplits(good_splits, <<>>, S, O)
    IN IF splits = <<>> THEN merged
       ELSE IF Len(Head(splits)) < S
       THEN Assemble(Tail(splits), Append(good_splits, Head(splits)), S, O)
       ELSE merged \o SplitChars(Head(splits), S, O) \o Assemble(Tail(splits), <<>>, S, O)

\* the splitter as it would be if it carried nothing over to the next chunk
text_splitter_NoOverlap(S, O, text) ==
    IF \E i \in 1..Len(text) : text[i] = " "
    THEN Assemble(Pieces(text, <<>>), <<>>, S, 0)
    ELSE SplitChars(text, S, 0)

text_splitter(S, O, text) ==
    IF \E i \in 1..Len(text) : text[i] = " "
    THEN Assemble(Pieces(text, <<>>), <<>>, S, O)
    ELSE SplitChars(text, S, O)

\* the splitter of the DocumentProcessor, built from the configuration
SplitText(text) == text_splitter(ChunkSize, ChunkOverlap, text)

RECURSIVE split_documents(_)
split_documents(documents) ==
    IF documents = <<>> THEN <<>>
    ELSE LET d == Head(documents)
             parts == SplitText(d.text)
         IN [i \in 1..Len(parts) |-> [src |-> d.src, text |-> parts[i]]]
            \o split_documents(Tail(documents))

\* process_documents: splitOut is whether the splitter raises
dp_process_documents(file_paths, splitOut) ==
    LET loaded == load_documents(file_paths)
        splits == split_documents(loaded.documents)
    IN IF loaded.documents = <<>>
       THEN [ok |-> FALSE, msg |-> <<"No documents loaded successfully">>,
             chunks |-> <<>>, errors |-> loaded.errors]
       ELSE IF splitOut = "raise"
       THEN [ok |-> FALSE, msg |-> handle_processing_error(<<"split failed">>),
             chunks |-> <<>>, errors |-> loaded.errors]
       ELSE IF splits = <<>>
       THEN [ok |-> FALSE, msg |-> <<"No document chunks created">>,
             chunks |-> <<>>, errors |-> loaded.errors]
       ELSE [ok |-> TRUE,
             msg |-> <<"Successfully processed ">> \o Str(Len(splits)) \o <<" document chunks">>
                     \o (IF loaded.errors # <<>>
                         THEN <<" (with ">> \o Str(Len(loaded.errors)) \o <<" errors)">>
                         ELSE <<>>),
             chunks |-> splits, errors |-> loaded.errors]

\* ---------------------------------------------------------- groq_client.py
\* What the chat backend does with one request.
ChatOutcomes == {"ok", "ok_error_text", "null_content", "malformed", "non200",
                 "timeout", "connection_refused", "other"}

system_prompt(language) ==
    IF language = "hindi" THEN "hindi instruction" ELSE "english instruction"

\* _create_prompt: the sections of the prompt in order; the context section
\* (label and context) is absent when the context is the empty string.
create_prompt(question, context, language) ==
    [instruction |-> system_prompt(language),
     context_label |-> IF context = <<>> THEN ""
                       ELSE IF language = "hindi" THEN "\n\nsandarbh (Context): "
                       ELSE "\n\nContext: ",
     context |-> context,
     question_label |-> IF language = "hindi" THEN "\n\nprashn: " ELSE "\n\nQuestion: ",
     question |-> question,
     answer_label |-> IF language = "hindi" THEN "\n\nuttar (keval hindi mein):"
                      ELSE "\n\nAnswer (in English only):"]

\* The try block of chat(): requests.post and the extraction of the content.
\* exc is the exception the block ends with ("none" when it returns).
chat_try(outcome) ==
    CASE outcome = "ok" ->
           [exc |-> "none", status |-> "200", none |-> FALSE, content |-> <<"an answer">>]
      [] outcome = "ok_error_text" ->
           [exc |-> "none", status |-> "200", none |-> FALSE,
            content |-> <<"an answer about ", "Error", " codes">>]
      [] outcome = "null_content" ->
           [exc |-> "none", status |-> "200", none |-> TRUE, content |-> <<>>]
      [] outcome = "malformed" ->
           [exc |-> "KeyError", status |-> "200", none |-> FALSE, content |-> <<"'choices'">>]
      [] outcome = "non200" ->
           [exc |-> "none", status |-> "500", none |-> FALSE, content |-> <<"body">>]
      [] outcome = "timeout" ->
           [exc |-> "Timeout", status |-> "", none |-> FALSE, content |-> <<>>]
      [] outcome = "connection_refused" ->
           [exc |-> "ConnectionError", status |-> "", none |-> FALSE, content |-> <<>>]
      [] OTHER ->
           [exc |-> "Exception", status |-> "", none |-> FALSE,
            content |-> <<"unexpected failure">>]

\* chat() as it would be without its last, generic except clause
chat_response_NoGeneric(outcome, language) ==
    LET r == chat_try(outcome)
    IN CASE r.exc = "Timeout" ->
              [raised |-> FALSE, none |-> FALSE,
               text |-> handle_connection_error(<<"Request timed out">>, language)]
         [] r.exc = "ConnectionError" ->
              [raised |-> FALSE, none |-> FALSE,
               text |-> handle_connection_error(<<"Failed to connect to Groq API">>, language)]
         [] r.exc \in {"KeyError", "Exception"} ->
              [raised |-> TRUE, none |-> FALSE, text |-> <<>>]
         [] r.status = "200" ->
              [raised |-> FALSE, none |-> r.none, text |-> r.content]
         [] OTHER ->
              [raised |-> FALSE, none |-> FALSE,
               text |-> handle_api_error(<<"API Error ", r.status, ": ">> \o r.content, language)]

\* The response handling and the except clauses of chat(): the value
\* returned, or raised = TRUE when an exception leaves chat().  none = TRUE
\* is the Python value None (a 200 body whose content is null).
chat_response(outcome, language) ==
    LET r == chat_try(outcome)
    IN CASE r.exc = "Timeout" ->
              [raised |-> FALSE, none |-> FALSE,
               text |-> handle_connection_error(<<"Request timed out">>, language)]
         [] r.exc = "ConnectionError" ->
              [raised |-> FALSE, none |-> FALSE,
               text |-> handle_connection_error(<<"Failed to connect to Groq API">>, language)]
         [] r.exc \in {"KeyError", "Exception"} ->
              [raised |-> FALSE, none |-> FALSE, text |-> handle_api_error(r.content, language)]
         [] r.status = "200" ->
              [raised |-> FALSE, none |-> r.none, text |-> r.content]
         [] OTHER ->
              [raised |-> FALSE, none |-> FALSE,
               text |-> handle_api_error(<<"API Error ", r.status, ": ">> \o r.content, language)]

\* chat(): builds the prompt, posts it, maps the response
chat(outcome, question, context, language) ==
    LET full_prompt == create_prompt(question, context, language)
        r == chat_response(outcome, language)
    IN [raised |-> r.raised, none |-> r.none, text |-> r.text, prompt |-> full_prompt]

Hello == [chars |-> <<"L", "L", "L", "L", "L">>, tok |-> "t1"]

\* test_connection as it would be if it looked at the status of the
\* response instead of the text returned
test_connection_ByStatus(outcome) ==
    LET test_response == chat(outcome, Hello, <<>>, "english")
        r == chat_try(outcome)
    IN IF r.exc = "none" /\ r.status = "200" /\ ~r.none
       THEN [ok |-> TRUE, msg |-> <<"Groq API connection successful">>,
             prompt |-> test_response.prompt]
       ELSE [ok |-> FALSE, msg |-> test_response.text, prompt |-> test_response.prompt]

\* GroqClient.test_connection: the result, and the prompt of its chat call
test_connection(outcome) ==
    LET test_response == chat(outcome, Hello, <<>>, "english")
    IN IF test_response.raised \/ test_response.none
       THEN [ok |-> FALSE, msg |-> <<"Groq API connection failed: ", "exception">>,
             prompt |-> test_response.prompt]
       ELSE IF ContainsError(test_response.text)
       THEN [ok |-> FALSE, msg |-> test_response.text, prompt |-> test_response.prompt]
       ELSE [ok |-> TRUE, msg |-> <<"Groq API connection successful">>,
             prompt |-> test_response.prompt]

\* ----------------------------------------------------------- vector_store.py
ProbeOutcomes == {"vector", "empty", "raise"}
OpenOutcomes == {"ok", "raise"}
AddOutcomes == {"ok", "raise", "raise_partial"}
SearchOutcomes == {"ok", "raise"}

\* VectorStoreManager.__init__
vs_new == [embeddings |-> FALSE, vectorstore |-> "None", documents |-> <<>>,
           is_initialized |-> FALSE]

NoCalls == [test |-> 0, probe |-> 0, open |-> 0, add |-> 0, search |-> 0,
            chat |-> 0, process |-> 0, vs_init |-> 0]

test_embeddings(probeOut) ==
    CASE probeOut = "vector" -> [ok |-> TRUE, msg |-> <<"Embeddings test successful">>]
      [] probeOut = "empty" ->
           [ok |-> FALSE, msg |-> <<"Ollama embeddings failed - make sure Ollama is running">>]
      [] OTHER ->
           [ok |-> FALSE, msg |-> <<"Ollama Error: ", "probe failed",
                                    ". Make sure Ollama is running with 'ollama serve'">>]

\* initialize as it would be with the index opened before the probe
vs_initialize_OpenFirst(vs, probeOut, openOut) ==
    LET withEmb == [vs EXCEPT !.embeddings = TRUE]
        test == test_embeddings(probeOut)
    IN IF openOut = "raise"
       THEN [vs |-> withEmb, ok |-> FALSE,
             msg |-> <<"Vector store initialization failed: ", "open failed">>,
             calls |-> [NoCalls EXCEPT !.vs_init = 1, !.open = 1]]
       ELSE IF ~test.ok
       THEN [vs |-> [withEmb EXCEPT !.vectorstore = "opened by initialize"],
             ok |-> FALSE, msg |-> test.msg,
             calls |-> [NoCalls EXCEPT !.vs_init = 1, !.probe = 1, !.open = 1]]
       ELSE [vs |-> [withEmb EXCEPT !.vectorstore = "opened by initialize",
                                    !.is_initialized = TRUE],
             ok |-> TRUE, msg |-> <<"Vector store initialized successfully">>,
             calls |-> [NoCalls EXCEPT !.vs_init = 1, !.probe = 1, !.open = 1]]

\* VectorStoreManager.initialize: the new manager, the result, the calls made
vs_initialize(vs, probeOut, openOut) ==
    LET withEmb == [vs EXCEPT !.embeddings = TRUE]
        test == test_embeddings(probeOut)
    IN IF ~test.ok
       THEN [vs |-> withEmb, ok |-> FALSE, msg |-> test.msg,
             calls |-> [NoCalls EXCEPT !.vs_init = 1, !.probe = 1]]
       ELSE IF openOut = "raise"
       THEN [vs |-> withEmb, ok |-> FALSE,
             msg |-> <<"Vector store initialization failed: ", "open failed">>,
             calls |-> [NoCalls EXCEPT !.vs_init = 1, !.probe = 1, !.open = 1]]
       ELSE [vs |-> [withEmb EXCEPT !.vectorstore = "opened by initialize",
                                    !.is_initialized = TRUE],
             ok |-> TRUE, msg |-> <<"Vector store initialized successfully">>,
             calls |-> [NoCalls EXCEPT !.vs_init = 1, !.probe = 1, !.open = 1]]

\* add_documents as it would be if the chunks reached the mirror only
vs_add_documents_MirrorOnly(vs, idx, docs, addOut) ==
    IF ~vs.is_initialized
    THEN [vs |-> vs, idx |-> idx, ok |-> FALSE, msg |-> <<"Vector store not initialized">>,
          calls |-> NoCalls]
    ELSE IF docs = <<>>
    THEN [vs |-> vs, idx |-> idx, ok |-> FALSE, msg |-> <<"No documents provided">>,
          calls |-> NoCalls]
    ELSE [vs |-> [vs EXCEPT !.documents = vs.documents \o docs],
          idx |-> idx, ok |-> TRUE,
          msg |-> <<"Added ">> \o Str(Len(docs)) \o <<" document chunks to vector store">>,
          calls |-> NoCalls]

\* add_documents as it would be without the readiness check
vs_add_documents_NoReadyCheck(vs, idx, docs, addOut) ==
    IF docs = <<>>
    THEN [vs |-> vs, idx |-> idx, ok |-> FALSE, msg |-> <<"No documents provided">>,
          calls |-> NoCalls]
    ELSE IF addOut = "ok"
    THEN [vs |-> [vs EXCEPT !.documents = vs.documents \o docs],
          idx |-> idx \o docs, ok |-> TRUE,
          msg |-> <<"Added ">> \o Str(Len(docs)) \o <<" document chunks to vector store">>,
          calls |-> [NoCalls EXCEPT !.add = 1]]
    ELSE [vs |-> vs,
          idx |-> IF addOut = "raise_partial" THEN Append(idx, Head(docs)) ELSE idx,
          ok |-> FALSE, msg |-> handle_processing_error(<<"add failed">>),
          calls |-> [NoCalls EXCEPT !.add = 1]]

\* add_documents as it would be if the mirror were extended before the
\* index is called
vs_add_documents_MirrorFirst(vs, idx, docs, addOut) ==
    IF ~vs.is_initialized
    THEN [vs |-> vs, idx |-> idx, ok |-> FALSE, msg |-> <<"Vector store not initialized">>,
          calls |-> NoCalls]
    ELSE IF docs = <<>>
    THEN [vs |-> vs, idx |-> idx, ok |-> FALSE, msg |-> <<"No documents provided">>,
          calls |-> NoCalls]
    ELSE IF addOut = "ok"
    THEN [vs |-> [vs EXCEPT !.documents = vs.documents \o docs],
          idx |-> idx \o docs, ok |-> TRUE,
          msg |-> <<"Added ">> \o Str(Len(docs)) \o <<" document chunks to vector store">>,
          calls |-> [NoCalls EXCEPT !.add = 1]]
    ELSE [vs |-> [vs EXCEPT !.documents = vs.documents \o docs],
          idx |-> IF addOut = "raise_partial" THEN Append(idx, Head(docs)) ELSE idx,
          ok |-> FALSE, msg |-> handle_processing_error(<<"add failed">>),
          calls |-> [NoCalls EXCEPT !.add = 1]]

\* add_documents as it would be if a failed call of the index were repeated
vs_add_documents_Retry(vs, idx, docs, addOut) ==
    IF ~vs.is_initialized
    THEN [vs |-> vs, idx |-> idx, ok |-> FALSE, msg |-> <<"Vector store not initialized">>,
          calls |-> NoCalls]
    ELSE IF docs = <<>>
    THEN [vs |-> vs, idx |-> idx, ok |-> FALSE, msg |-> <<"No documents provided">>,
          calls |-> NoCalls]
    ELSE IF addOut = "ok"
    THEN [vs |-> [vs EXCEPT !.documents = vs.documents \o docs],
          idx |-> idx \o docs, ok |-> TRUE,
          msg |-> <<"Added ">> \o Str(Len(docs)) \o <<" document chunks to vector store">>,
          calls |-> [NoCalls EXCEPT !.add = 1]]
    ELSE [vs |-> vs,
          idx |-> IF addOut = "raise_partial" THEN Append(idx, Head(docs)) ELSE idx,
          ok |-> FALSE, msg |-> handle_processing_error(<<"add failed">>),
          calls |-> [NoCalls EXCEPT !.add = 2]]

\* VectorStoreManager.add_documents: idx is the persistent index on disk
vs_add_documents(vs, idx, docs, addOut) ==
    IF ~vs.is_initialized
    THEN [vs |-> vs, idx |-> idx, ok |-> FALSE, msg |-> <<"Vector store not initialized">>,
          calls |-> NoCalls]
    ELSE IF docs = <<>>
    THEN [vs |-> vs, idx |-> idx, ok |-> FALSE, msg |-> <<"No documents provided">>,
          calls |-> NoCalls]
    ELSE IF addOut = "ok"
    THEN [vs |-> [vs EXCEPT !.documents = vs.documents \o docs],
          idx |-> idx \o docs, ok |-> TRUE,
          msg |-> <<"Added ">> \o Str(Len(docs)) \o <<" document chunks to vector store">>,
          calls |-> [NoCalls EXCEPT !.add = 1]]
    ELSE [vs |-> vs,
          idx |-> IF addOut = "raise_partial" THEN Append(idx, Head(docs)) ELSE idx,
          ok |-> FALSE, msg |-> handle_processing_error(<<"add failed">>),
          calls |-> [NoCalls EXCEPT !.add = 1]]

\* The similarity of the deterministic embedding stub: how often the
\* question's token occurs in the chunk.
Similarity(query, chunk) == CountIn(chunk.text, {query.tok})

\* the position of the most similar chunk, the earliest on a tie
BestPos(query, chunks) ==
    CHOOSE i \in 1..Len(chunks) :
        \A j \in 1..Len(chunks) :
            \/ Similarity(query, chunks[i]) > Similarity(query, chunks[j])
            \/ Similarity(query, chunks[i]) = Similarity(query, chunks[j]) /\ i <= j

RemoveAt(s, i) == SubSeq(s, 1, i - 1) \o SubSeq(s, i + 1, Len(s))

RECURSIVE TopK(_, _, _)
TopK(query, chunks, k) ==
    IF k = 0 \/ chunks = <<>> THEN <<>>
    ELSE LET i == BestPos(query, chunks)
         IN <<chunks[i]>> \o TopK(query, RemoveAt(chunks, i), k - 1)

\* VectorStoreManager.similarity_search; k is <<>> for None and <<n>> for n.
\* The retriever call is in a try block whose handler returns [].
vs_similarity_search(vs, idx, query, k, searchOut) ==
    IF ~vs.is_initialized \/ vs.vectorstore = "None"
    THEN [docs |-> <<>>, raised |-> FALSE, calls |-> NoCalls]
    ELSE LET kk == IF k = <<>> \/ k[1] = 0 THEN SimilaritySearchK ELSE k[1]
             relevant_docs == TopK(query, idx, kk)
         IN [docs |-> IF searchOut = "raise" THEN <<>> ELSE relevant_docs,
             raised |-> FALSE, calls |-> [NoCalls EXCEPT !.search = 1]]

\* VectorStoreManager.get_context_from_docs: "\n\n".join(page_content)
RECURSIVE get_context_from_docs(_)
get_context_from_docs(docs) ==
    IF docs = <<>> THEN <<>>
    ELSE IF Len(docs) = 1 THEN Head(docs).text
    ELSE Head(docs).text \o <<"\n\n">> \o get_context_from_docs(Tail(docs))

\* clear_documents as it would be if the mirror were emptied after the index
\* is opened again
vs_clear_documents_ReopenFirst(vs, idx, openOut) ==
    LET emptied == [vs EXCEPT !.documents = <<>>]
    IN IF ~vs.is_initialized
       THEN [vs |-> emptied, idx |-> idx, ok |-> TRUE,
             msg |-> <<"Documents cleared successfully">>, calls |-> NoCalls]
       ELSE IF openOut = "raise"
       THEN [vs |-> vs, idx |-> idx, ok |-> FALSE,
             msg |-> <<"Error clearing documents: ", "open failed">>,
             calls |-> [NoCalls EXCEPT !.open = 1]]
       ELSE [vs |-> [emptied EXCEPT !.vectorstore = "opened by clear"], idx |-> idx,
             ok |-> TRUE, msg |-> <<"Documents cleared successfully">>,
             calls |-> [NoCalls EXCEPT !.open = 1]]

\* clear_documents as it would be if a failed re-opening left the manager
\* not ready
vs_clear_documents_Reset(vs, idx, openOut) ==
    LET emptied == [vs EXCEPT !.documents = <<>>]
    IN IF ~vs.is_initialized
       THEN [vs |-> emptied, idx |-> idx, ok |-> TRUE,
             msg |-> <<"Documents cleared successfully">>, calls |-> NoCalls]
       ELSE IF openOut = "raise"
       THEN [vs |-> [emptied EXCEPT !.is_initialized = FALSE], idx |-> idx, ok |-> FALSE,
             msg |-> <<"Error clearing documents: ", "open failed">>,
             calls |-> [NoCalls EXCEPT !.open = 1]]
       ELSE [vs |-> [emptied EXCEPT !.vectorstore = "opened by clear"], idx |-> idx,
             ok |-> TRUE, msg |-> <<"Documents cleared successfully">>,
             calls |-> [NoCalls EXCEPT !.open = 1]]

\* VectorStoreManager.clear_documents: Chroma(persist_directory=...) opens
\* the directory again; what is stored on disk is not touched.
vs_clear_documents(vs, idx, openOut) ==
    LET emptied == [vs EXCEPT !.documents = <<>>]
    IN IF ~vs.is_initialized
       THEN [vs |-> emptied, idx |-> idx, ok |-> TRUE,
             msg |-> <<"Documents cleared successfully">>, calls |-> NoCalls]
       ELSE IF openOut = "raise"
       THEN [vs |-> emptied, idx |-> idx, ok |-> FALSE,
             msg |-> <<"Error clearing documents: ", "open failed">>,
             calls |-> [NoCalls EXCEPT !.open = 1]]
       ELSE [vs |-> [emptied EXCEPT !.vectorstore = "opened by clear"], idx |-> idx,
             ok |-> TRUE, msg |-> <<"Documents cleared successfully">>,
             calls |-> [NoCalls EXCEPT !.open = 1]]

get_document_count(vs) == Len(vs.documents)

\* ------------------------------------------------------------------- state
VARIABLES
    rag,      \* the RAGSystem object: groq_client, is_initialized
    vs,       \* its VectorStoreManager: embeddings, vectorstore, documents, is_initialized
    index,    \* the chunks stored in the persistent index directory
    last,     \* the last operation: its arguments, its result, the calls it made
    tmpdir,   \* the scratch files on disk: the names of the temporary files
    ui        \* the session state of the UI: its last request, document_count,
              \* initialization_attempted and the transcript (messages)

vars == <<rag, vs, index, last, tmpdir, ui>>

\* RAGSystem.__init__
rag_new == [groq_client |-> "None", is_initialized |-> FALSE]

NoQuestion == [chars |-> <<>>, tok |-> "t1"]
NoPrompt == [instruction |-> "", context_label |-> "", context |-> <<>>,
             question_label |-> "", question |-> NoQuestion, answer_label |-> ""]

\* The record of an operation; the fields an operation does not use keep
\* these values.
\* main.initialize_session_state: no request yet, document_count = 0,
\* initialization_attempted = False, messages = []
ui_new == [op |-> "none", unlink_outcome |-> "ok", shown |-> "none", document_count |-> 0,
           initialization_attempted |-> FALSE, messages |-> <<>>]

NoOp == [op |-> "none", raised |-> FALSE, ok |-> TRUE, msg |-> <<>>, none |-> FALSE,
         docs |-> <<>>, errors |-> <<>>, lang |-> "english", prompt |-> NoPrompt,
         calls |-> NoCalls, q |-> NoQuestion, given |-> <<>>, k |-> <<>>, config |-> <<>>,
         chat_outcome |-> "none", index_outcome |-> "none", probe_outcome |-> "none",
         fault |-> "none"]

Init ==
    /\ rag = rag_new
    /\ vs = vs_new
    /\ index = <<>>
    /\ tmpdir = <<>>
    /\ ui = ui_new
    /\ last = NoOp

AddCalls(a, b) == [c \in DOMAIN NoCalls |-> a[c] + b[c]]

\* ------------------------------------------------------------ rag_system.py
\* initialize as it would be with the vector store initialized before the
\* chat client is tested
Initialize_StoreFirst(chatOut, probeOut, openOut) ==
    LET groq == test_connection(chatOut)
        v == vs_initialize(vs, probeOut, openOut)
        testCalls == [NoCalls EXCEPT !.test = 1, !.chat = 1]
        rec == [NoOp EXCEPT !.op = "initialize", !.chat_outcome = chatOut,
                            !.probe_outcome = probeOut, !.index_outcome = openOut]
    IN IF ~v.ok
       THEN /\ rag' = [rag EXCEPT !.groq_client = "client"]
            /\ vs' = v.vs
            /\ last' = [rec EXCEPT !.ok = FALSE,
                                   !.msg = <<"Vector store initialization failed: ">> \o v.msg,
                                   !.calls = v.calls]
       ELSE IF ~groq.ok
       THEN /\ rag' = [rag EXCEPT !.groq_client = "client"]
            /\ vs' = v.vs
            /\ last' = [rec EXCEPT !.ok = FALSE,
                                   !.msg = <<"Groq initialization failed: ">> \o groq.msg,
                                   !.calls = AddCalls(testCalls, v.calls)]
       ELSE /\ rag' = [groq_client |-> "client", is_initialized |-> TRUE]
            /\ vs' = v.vs
            /\ last' = [rec EXCEPT !.ok = TRUE,
                                   !.msg = <<"RAG system initialized successfully!">>,
                                   !.calls = AddCalls(testCalls, v.calls)]

\* initialize as it would be with is_initialized set before the vector
\* store's result is looked at
Initialize_MarkEarly(chatOut, probeOut, openOut) ==
    LET groq == test_connection(chatOut)
        v == vs_initialize(vs, probeOut, openOut)
        testCalls == [NoCalls EXCEPT !.test = 1, !.chat = 1]
        rec == [NoOp EXCEPT !.op = "initialize", !.chat_outcome = chatOut,
                            !.probe_outcome = probeOut, !.index_outcome = openOut]
    IN IF ~groq.ok
       THEN /\ rag' = [rag EXCEPT !.groq_client = "client"]
            /\ vs' = vs
            /\ last' = [rec EXCEPT !.ok = FALSE,
                                   !.msg = <<"Groq initialization failed: ">> \o groq.msg,
                                   !.calls = testCalls]
       ELSE /\ rag' = [groq_client |-> "client", is_initialized |-> TRUE]
            /\ vs' = v.vs
            /\ last' = [rec EXCEPT !.ok = v.ok,
                                   !.msg = IF v.ok THEN <<"RAG system initialized successfully!">>
                                           ELSE <<"Vector store initialization failed: ">> \o v.msg,
                                   !.calls = AddCalls(testCalls, v.calls)]

\* initialize as it would be if a failed attempt reset is_initialized
Initialize_ResetOnFailure(chatOut, probeOut, openOut) ==
    LET groq == test_connection(chatOut)
        v == vs_initialize(vs, probeOut, openOut)
        testCalls == [NoCalls EXCEPT !.test = 1, !.chat = 1]
        rec == [NoOp EXCEPT !.op = "initialize", !.chat_outcome = chatOut,
                            !.probe_outcome = probeOut, !.index_outcome = openOut]
    IN IF ~groq.ok
       THEN /\ rag' = [groq_client |-> "client", is_initialized |-> FALSE]
            /\ vs' = vs
            /\ last' = [rec EXCEPT !.ok = FALSE,
                                   !.msg = <<"Groq initialization failed: ">> \o groq.msg,
                                   !.calls = testCalls]
       ELSE IF ~v.ok
       THEN /\ rag' = [groq_client |-> "client", is_initialized |-> FALSE]
            /\ vs' = v.vs
            /\ last' = [rec EXCEPT !.ok = FALSE,
                                   !.msg = <<"Vector store initialization failed: ">> \o v.msg,
                                   !.calls = AddCalls(testCalls, v.calls)]
       ELSE /\ rag' = [groq_client |-> "client", is_initialized |-> TRUE]
            /\ vs' = v.vs
            /\ last' = [rec EXCEPT !.ok = TRUE,
                                   !.msg = <<"RAG system initialized successfully!">>,
                                   !.calls = AddCalls(testCalls, v.calls)]

\* RAGSystem.initialize
Initialize(chatOut, probeOut, openOut) ==
    LET groq == test_connection(chatOut)
        v == vs_initialize(vs, probeOut, openOut)
        testCalls == [NoCalls EXCEPT !.test = 1, !.chat = 1]
        rec == [NoOp EXCEPT !.op = "initialize", !.chat_outcome = chatOut,
                            !.probe_outcome = probeOut, !.index_outcome = openOut]
    IN IF ~groq.ok
       THEN /\ rag' = [rag EXCEPT !.groq_client = "client"]
            /\ vs' = vs
            /\ last' = [rec EXCEPT !.ok = FALSE,
                                   !.msg = <<"Groq initialization failed: ">> \o groq.msg,
                                   !.calls = testCalls]
       ELSE IF ~v.ok
       THEN /\ rag' = [rag EXCEPT !.groq_client = "client"]
            /\ vs' = v.vs
            /\ last' = [rec EXCEPT !.ok = FALSE,
                                   !.msg = <<"Vector store initialization failed: ">> \o v.msg,
                                   !.calls = AddCalls(testCalls, v.calls)]
       ELSE /\ rag' = [groq_client |-> "client", is_initialized |-> TRUE]
            /\ vs' = v.vs
            /\ last' = [rec EXCEPT !.ok = TRUE,
                                   !.msg = <<"RAG system initialized successfully!">>,
                                   !.calls = AddCalls(testCalls, v.calls)]

\* An outcome of a backend that the operation never consults is not
\* enumerated: it is fixed to its first value.
InitializeStep ==
    \E chatOut \in ChatOutcomes, probeOut \in ProbeOutcomes, openOut \in OpenOutcomes :
        /\ ~test_connection(chatOut).ok => probeOut = "vector" /\ openOut = "ok"
        /\ probeOut # "vector" => openOut = "ok"
        /\ Initialize(chatOut, probeOut, openOut)
        /\ UNCHANGED <<index, tmpdir, ui>>

\* process_documents as it would be without the check of is_initialized
Ingest_NoGate(file_paths, splitOut, addOut) ==
    LET p == dp_process_documents(file_paths, splitOut)
        a == vs_add_documents(vs, index, p.chunks, addOut)
        procCalls == [NoCalls EXCEPT !.process = 1]
        rec == [NoOp EXCEPT !.op = "ingest", !.given = file_paths, !.index_outcome = addOut,
                            !.fault = IF splitOut = "raise" THEN "split" ELSE "none"]
    IN IF ~p.ok
       THEN /\ UNCHANGED <<vs, index>>
            /\ last' = [rec EXCEPT !.ok = FALSE, !.msg = p.msg, !.errors = p.errors,
                                   !.calls = procCalls]
       ELSE IF p.chunks = <<>>
       THEN /\ UNCHANGED <<vs, index>>
            /\ last' = [rec EXCEPT !.ok = FALSE, !.msg = <<"No documents were processed">>,
                                   !.errors = p.errors, !.calls = procCalls]
       ELSE /\ vs' = a.vs
            /\ index' = a.idx
            /\ last' = [rec EXCEPT !.ok = a.ok,
                                   !.msg = IF a.ok THEN p.msg \o <<". ">> \o a.msg
                                           ELSE <<"Vector store error: ">> \o a.msg,
                                   !.docs = p.chunks, !.errors = p.errors,
                                   !.calls = AddCalls(procCalls, a.calls)]

\* RAGSystem.process_documents
Ingest(file_paths, splitOut, addOut) ==
    LET p == dp_process_documents(file_paths, splitOut)
        a == vs_add_documents(vs, index, p.chunks, addOut)
        procCalls == [NoCalls EXCEPT !.process = 1]
        rec == [NoOp EXCEPT !.op = "ingest", !.given = file_paths, !.index_outcome = addOut,
                            !.fault = IF splitOut = "raise" THEN "split" ELSE "none"]
    IN IF ~rag.is_initialized
       THEN /\ UNCHANGED <<vs, index>>
            /\ last' = [rec EXCEPT !.ok = FALSE, !.msg = <<"RAG system not initialized">>]
       ELSE IF ~p.ok
       THEN /\ UNCHANGED <<vs, index>>
            /\ last' = [rec EXCEPT !.ok = FALSE, !.msg = p.msg, !.errors = p.errors,
                                   !.calls = procCalls]
       ELSE IF p.chunks = <<>>
       THEN /\ UNCHANGED <<vs, index>>
            /\ last' = [rec EXCEPT !.ok = FALSE, !.msg = <<"No documents were processed">>,
                                   !.errors = p.errors, !.calls = procCalls]
       ELSE /\ vs' = a.vs
            /\ index' = a.idx
            /\ last' = [rec EXCEPT !.ok = a.ok,
                                   !.msg = IF a.ok THEN p.msg \o <<". ">> \o a.msg
                                           ELSE <<"Vector store error: ">> \o a.msg,
                                   !.docs = p.chunks, !.errors = p.errors,
                                   !.calls = AddCalls(procCalls, a.calls)]

\* the chunks each batch yields when nothing raises
BatchChunks == [b \in Batches |-> dp_process_documents(b, "ok").chunks]

IngestStep ==
    \E file_paths \in Batches, splitOut \in {"ok", "raise"}, addOut \in AddOutcomes :
        /\ Len(index) + Len(BatchChunks[file_paths]) <= MaxIndex
        /\ ~rag.is_initialized \/ BatchChunks[file_paths] = <<>> => splitOut = "ok"
        /\ ~rag.is_initialized \/ BatchChunks[file_paths] = <<>> \/ splitOut = "raise"
             => addOut = "ok"
        /\ Ingest(file_paths, splitOut, addOut)
        /\ UNCHANGED <<rag, tmpdir, ui>>

\* Where an exception that no callee handles surfaces inside the try block of
\* query(): at the search call, at the context call, at the chat call.
Faults == {"none", "search", "context", "chat"}

\* the try block as it would be if a search without results were an error
query_try_FailOnEmpty(question, language, searchOut, chatOut, fault) ==
    LET s == vs_similarity_search(vs, index, question, <<>>, searchOut)
        context == get_context_from_docs(s.docs)
        answer == chat(chatOut, question, context, language)
        chatCall == [NoCalls EXCEPT !.chat = 1]
    IN IF fault = "search" \/ s.docs = <<>>
       THEN [raised |-> TRUE, text |-> <<>>, none |-> FALSE, docs |-> <<>>,
             prompt |-> NoPrompt, calls |-> [NoCalls EXCEPT !.search = 1]]
       ELSE IF fault = "context"
       THEN [raised |-> TRUE, text |-> <<>>, none |-> FALSE, docs |-> <<>>,
             prompt |-> NoPrompt, calls |-> s.calls]
       ELSE IF rag.groq_client = "None"
       THEN [raised |-> TRUE, text |-> <<>>, none |-> FALSE, docs |-> <<>>,
             prompt |-> NoPrompt, calls |-> s.calls]
       ELSE IF fault = "chat" \/ answer.raised
       THEN [raised |-> TRUE, text |-> <<>>, none |-> FALSE, docs |-> <<>>,
             prompt |-> NoPrompt, calls |-> AddCalls(s.calls, chatCall)]
       ELSE [raised |-> FALSE, text |-> answer.text, none |-> answer.none, docs |-> s.docs,
             prompt |-> answer.prompt, calls |-> AddCalls(s.calls, chatCall)]

\* the try block as it would be if the context were built from the whole
\* index instead of the chunks retrieved
query_try_ContextFromIndex(question, language, searchOut, chatOut, fault) ==
    LET s == vs_similarity_search(vs, index, question, <<>>, searchOut)
        context == get_context_from_docs(index)
        answer == chat(chatOut, question, context, language)
        chatCall == [NoCalls EXCEPT !.chat = 1]
    IN IF fault = "search"
       THEN [raised |-> TRUE, text |-> <<>>, none |-> FALSE, docs |-> <<>>,
             prompt |-> NoPrompt, calls |-> [NoCalls EXCEPT !.search = 1]]
       ELSE IF fault = "context"
       THEN [raised |-> TRUE, text |-> <<>>, none |-> FALSE, docs |-> <<>>,
             prompt |-> NoPrompt, calls |-> s.calls]
       ELSE IF rag.groq_client = "None"
       THEN [raised |-> TRUE, text |-> <<>>, none |-> FALSE, docs |-> <<>>,
             prompt |-> NoPrompt, calls |-> s.calls]
       ELSE IF fault = "chat" \/ answer.raised
       THEN [raised |-> TRUE, text |-> <<>>, none |-> FALSE, docs |-> <<>>,
             prompt |-> NoPrompt, calls |-> AddCalls(s.calls, chatCall)]
       ELSE [raised |-> FALSE, text |-> answer.text, none |-> answer.none, docs |-> s.docs,
             prompt |-> answer.prompt, calls |-> AddCalls(s.calls, chatCall)]

\* The try block of RAGSystem.query
query_try(question, language, searchOut, chatOut, fault) ==
    LET s == vs_similarity_search(vs, index, question, <<>>, searchOut)
        context == get_context_from_docs(s.docs)
        answer == chat(chatOut, question, context, language)
        chatCall == [NoCalls EXCEPT !.chat = 1]
    IN IF fault = "search"
       THEN [raised |-> TRUE, text |-> <<>>, none |-> FALSE, docs |-> <<>>,
             prompt |-> NoPrompt, calls |-> [NoCalls EXCEPT !.search = 1]]
       ELSE IF fault = "context"
       THEN [raised |-> TRUE, text |-> <<>>, none |-> FALSE, docs |-> <<>>,
             prompt |-> NoPrompt, calls |-> s.calls]
       ELSE IF rag.groq_client = "None"
       THEN [raised |-> TRUE, text |-> <<>>, none |-> FALSE, docs |-> <<>>,
             prompt |-> NoPrompt, calls |-> s.calls]
       ELSE IF fault = "chat" \/ answer.raised
       THEN [raised |-> TRUE, text |-> <<>>, none |-> FALSE, docs |-> <<>>,
             prompt |-> NoPrompt, calls |-> AddCalls(s.calls, chatCall)]
       ELSE [raised |-> FALSE, text |-> answer.text, none |-> answer.none, docs |-> s.docs,
             prompt |-> answer.prompt, calls |-> AddCalls(s.calls, chatCall)]

\* query as it would be with the readiness check before the document count
Query_InitCheckFirst(question, searchOut, chatOut, fault) ==
    LET detected_language == detect_language(question.chars)
        rec == [NoOp EXCEPT !.op = "query", !.q = question, !.lang = detected_language,
                            !.fault = fault, !.chat_outcome = chatOut,
                            !.index_outcome = searchOut]
        t == query_try(question, detected_language, searchOut, chatOut, fault)
    IN last' =
         IF ~rag.is_initialized
         THEN [rec EXCEPT !.msg = not_initialized_msg(detected_language)]
         ELSE IF get_document_count(vs) = 0
         THEN [rec EXCEPT !.msg = no_docs_error(detected_language)]
         ELSE IF t.raised
         THEN [rec EXCEPT !.msg = handle_api_error(<<"exception">>, detected_language),
                          !.calls = t.calls]
         ELSE [rec EXCEPT !.msg = t.text, !.none = t.none, !.docs = t.docs,
                          !.prompt = t.prompt, !.calls = t.calls]

\* query as it would be without its except clause
Query_NoHandler(question, searchOut, chatOut, fault) ==
    LET detected_language == detect_language(question.chars)
        rec == [NoOp EXCEPT !.op = "query", !.q = question, !.lang = detected_language,
                            !.fault = fault, !.chat_outcome = chatOut,
                            !.index_outcome = searchOut]
        t == query_try(question, detected_language, searchOut, chatOut, fault)
    IN last' =
         IF get_document_count(vs) = 0
         THEN [rec EXCEPT !.msg = no_docs_error(detected_language)]
         ELSE IF ~rag.is_initialized
         THEN [rec EXCEPT !.msg = not_initialized_msg(detected_language)]
         ELSE IF t.raised
         THEN [rec EXCEPT !.raised = TRUE, !.calls = t.calls]
         ELSE [rec EXCEPT !.msg = t.text, !.none = t.none, !.docs = t.docs,
                          !.prompt = t.prompt, !.calls = t.calls]

\* query as it would be if an answer that reports an error were returned
\* without the sources
Query_NoSourcesOnError(question, searchOut, chatOut, fault) ==
    LET detected_language == detect_language(question.chars)
        rec == [NoOp EXCEPT !.op = "query", !.q = question, !.lang = detected_language,
                            !.fault = fault, !.chat_outcome = chatOut,
                            !.index_outcome = searchOut]
        t == query_try(question, detected_language, searchOut, chatOut, fault)
    IN last' =
         IF get_document_count(vs) = 0
         THEN [rec EXCEPT !.msg = no_docs_error(detected_language)]
         ELSE IF ~rag.is_initialized
         THEN [rec EXCEPT !.msg = not_initialized_msg(detected_language)]
         ELSE IF t.raised
         THEN [rec EXCEPT !.msg = handle_api_error(<<"exception">>, detected_language),
                          !.calls = t.calls]
         ELSE [rec EXCEPT !.msg = t.text, !.none = t.none,
                          !.docs = IF ContainsError(t.text) THEN <<>> ELSE t.docs,
                          !.prompt = t.prompt, !.calls = t.calls]

\* query as it would be if it counted the chunks of the persistent index
\* instead of the mirror
Query_CountFromIndex(question, searchOut, chatOut, fault) ==
    LET detected_language == detect_language(question.chars)
        rec == [NoOp EXCEPT !.op = "query", !.q = question, !.lang = detected_language,
                            !.fault = fault, !.chat_outcome = chatOut,
                            !.index_outcome = searchOut]
        t == query_try(question, detected_language, searchOut, chatOut, fault)
    IN last' =
         IF Len(index) = 0
         THEN [rec EXCEPT !.msg = no_docs_error(detected_language)]
         ELSE IF ~rag.is_initialized
         THEN [rec EXCEPT !.msg = not_initialized_msg(detected_language)]
         ELSE IF t.raised
         THEN [rec EXCEPT !.msg = handle_api_error(<<"exception">>, detected_language),
                          !.calls = t.calls]
         ELSE [rec EXCEPT !.msg = t.text, !.none = t.none, !.docs = t.docs,
                          !.prompt = t.prompt, !.calls = t.calls]

\* RAGSystem.query
Query(question, searchOut, chatOut, fault) ==
    LET detected_language == detect_language(question.chars)
        rec == [NoOp EXCEPT !.op = "query", !.q = question, !.lang = detected_language,
                            !.fault = fault, !.chat_outcome = chatOut,
                            !.index_outcome = searchOut]
        t == query_try(question, detected_language, searchOut, chatOut, fault)
    IN last' =
         IF get_document_count(vs) = 0
         THEN [rec EXCEPT !.msg = no_docs_error(detected_language)]
         ELSE IF ~rag.is_initialized
         THEN [rec EXCEPT !.msg = not_initialized_msg(detected_language)]
         ELSE IF t.raised
         THEN [rec EXCEPT !.msg = handle_api_error(<<"exception">>, detected_language),
                          !.calls = t.calls]
         ELSE [rec EXCEPT !.msg = t.text, !.none = t.none, !.docs = t.docs,
                          !.prompt = t.prompt, !.calls = t.calls]

\* One outcome of the chat backend for each path through chat(): the 200
\* path, the generic handler, the non-200 path, the two connection handlers.
QueryChatOutcomes == {"ok", "malformed", "non200", "timeout", "connection_refused"}

QueryStep ==
    \E question \in Questions, searchOut \in SearchOutcomes, chatOut \in QueryChatOutcomes,
       fault \in Faults :
        /\ get_document_count(vs) = 0 \/ ~rag.is_initialized
             => searchOut = "ok" /\ chatOut = "ok" /\ fault = "none"
        /\ fault = "search" => searchOut = "ok"
        /\ fault # "none" => chatOut = "ok"
        /\ Query(question, searchOut, chatOut, fault)
        /\ UNCHANGED <<rag, vs, index, tmpdir, ui>>

\* RAGSystem.clear_documents
Clear(openOut) ==
    LET c == vs_clear_documents(vs, index, openOut)
    IN /\ vs' = c.vs
       /\ index' = c.idx
       /\ last' = [NoOp EXCEPT !.op = "clear", !.ok = c.ok, !.msg = c.msg, !.calls = c.calls,
                               !.index_outcome = openOut]

ClearStep ==
    \E openOut \in OpenOutcomes :
        /\ ~vs.is_initialized => openOut = "ok"
        /\ Clear(openOut)
        /\ UNCHANGED <<rag, tmpdir, ui>>

Next ==
    \/ InitializeStep
    \/ IngestStep
    \/ QueryStep
    \/ ClearStep

Spec == Init /\ [][Next]_vars

\* ------------------------------------- the vector store manager called directly
ChunkLists == {BatchChunks[b] : b \in Batches}

MaxK == 2
Ks == {<<>>} \cup {<<n>> : n \in 0..MaxK}

VSInitializeStep ==
    \E probeOut \in ProbeOutcomes, openOut \in OpenOutcomes :
        LET r == vs_initialize(vs, probeOut, openOut)
        IN /\ probeOut # "vector" => openOut = "ok"
           /\ vs' = r.vs
           /\ last' = [NoOp EXCEPT !.op = "vs_initialize", !.ok = r.ok, !.msg = r.msg,
                                   !.calls = r.calls, !.index_outcome = openOut,
                                   !.probe_outcome = probeOut]
           /\ UNCHANGED <<rag, index, tmpdir, ui>>

VSAddStep ==
    \E docs \in ChunkLists, addOut \in AddOutcomes :
        LET r == vs_add_documents(vs, index, docs, addOut)
        IN /\ Len(index) + Len(docs) <= MaxIndex
           /\ ~vs.is_initialized \/ docs = <<>> => addOut = "ok"
           /\ vs' = r.vs
           /\ index' = r.idx
           /\ last' = [NoOp EXCEPT !.op = "vs_add", !.ok = r.ok, !.msg = r.msg, !.docs = docs,
                                   !.calls = r.calls, !.index_outcome = addOut]
           /\ UNCHANGED <<rag, tmpdir, ui>>

VSSearchStep ==
    \E question \in Questions, k \in Ks, searchOut \in SearchOutcomes :
        LET r == vs_similarity_search(vs, index, question, k, searchOut)
        IN /\ ~vs.is_initialized => searchOut = "ok"
           /\ last' = [NoOp EXCEPT !.op = "vs_search", !.raised = r.raised, !.docs = r.docs,
                                   !.q = question, !.k = k, !.calls = r.calls,
                                   !.index_outcome = searchOut]
           /\ UNCHANGED <<rag, vs, index, tmpdir, ui>>

VSClearStep ==
    \E openOut \in OpenOutcomes :
        LET r == vs_clear_documents(vs, index, openOut)
        IN /\ ~vs.is_initialized => openOut = "ok"
           /\ vs' = r.vs
           /\ index' = r.idx
           /\ last' = [NoOp EXCEPT !.op = "vs_clear", !.ok = r.ok, !.msg = r.msg,
                                   !.calls = r.calls, !.index_outcome = openOut]
           /\ UNCHANGED <<rag, tmpdir, ui>>

NextVS ==
    \/ VSInitializeStep
    \/ VSAddStep
    \/ VSSearchStep
    \/ VSClearStep

SpecVS == Init /\ [][NextVS]_vars

\* ----------------------------------------------------- the process restarts
\* The process ends and a new one starts: RAGSystem.__init__ and
\* VectorStoreManager.__init__ run again and the session state is new; the
\* index directory on disk is kept.
RestartStep ==
    /\ rag' = rag_new
    /\ vs' = vs_new
    /\ ui' = ui_new
    /\ last' = [NoOp EXCEPT !.op = "restart"]
    /\ UNCHANGED <<index, tmpdir>>

\* the orchestrator's initialize, ingest and query across restarts
NextRestart ==
    \/ InitializeStep
    \/ IngestStep
    \/ QueryStep
    \/ RestartStep

SpecRestart == Init /\ [][NextRestart]_vars

\* the manager's operations across restarts
NextVSRestart ==
    \/ VSInitializeStep
    \/ VSAddStep
    \/ VSSearchStep
    \/ VSClearStep
    \/ RestartStep

SpecVSRestart == Init /\ [][NextVSRestart]_vars

\* ------------------------------------ the document processor called directly
InitDP ==
    /\ rag = rag_new
    /\ vs = vs_new
    /\ index = <<>>
    /\ tmpdir = <<>>
    /\ ui = ui_new
    /\ last \in {[NoOp EXCEPT !.op = "paths", !.given = b] : b \in PathLists}

DPProcessStep ==
    \E splitOut \in {"ok", "raise"} :
        LET r == dp_process_documents(last.given, splitOut)
        IN /\ last.op = "paths"
           /\ last' = [NoOp EXCEPT !.op = "process", !.given = last.given, !.ok = r.ok,
                                   !.msg = r.msg, !.docs = r.chunks, !.errors = r.errors,
                                   !.fault = IF splitOut = "raise" THEN "split" ELSE "none"]
           /\ UNCHANGED <<rag, vs, index, tmpdir, ui>>

\* RAGSystem.validate_file on the name of the first path
DPValidateStep ==
    /\ last.op = "paths"
    /\ last.given # <<>>
    /\ last' = [NoOp EXCEPT !.op = "validate", !.given = <<Head(last.given)>>,
                            !.ok = validate_file_format(Head(last.given).name)]
    /\ UNCHANGED <<rag, vs, index, tmpdir, ui>>

NextDP ==
    \/ DPProcessStep
    \/ DPValidateStep

SpecDP == InitDP /\ [][NextDP]_vars

\* ------------------------------------------------ the splitter called directly
MaxText == 5         \* characters in a document
MaxSize == 3         \* the largest chunk_size

TextChars == Tokens \cup {" "}
\* chunk_size and chunk_overlap with 0 <= chunk_overlap < chunk_size
SplitConfigs == {c \in (1..MaxSize) \X (0..(MaxSize - 1)) : c[2] < c[1]}

InitSplit ==
    /\ rag = rag_new
    /\ vs = vs_new
    /\ index = <<>>
    /\ tmpdir = <<>>
    /\ ui = ui_new
    /\ last \in {[NoOp EXCEPT !.op = "document", !.config = c,
                               !.given = <<[src |-> <<"a", "txt">>, text |-> t]>>] :
                   c \in SplitConfigs, t \in SeqsUpTo(TextChars, MaxText)}

\* DocumentProcessor.split_documents on one document, the splitter built
\* with chunk_size = config[1] and chunk_overlap = config[2]
SplitStep ==
    /\ last.op = "document"
    /\ LET d == last.given[1]
           parts == text_splitter(last.config[1], last.config[2], d.text)
       IN last' = [last EXCEPT !.op = "split",
                               !.docs = [i \in 1..Len(parts) |->
                                           [src |-> d.src, text |-> parts[i]]]]
    /\ UNCHANGED <<rag, vs, index, tmpdir, ui>>

NextSplit == SplitStep

SpecSplit == InitSplit /\ [][NextSplit]_vars

\* ------------------------------------------- the chat client called directly
InitChat ==
    /\ rag = rag_new
    /\ vs = vs_new
    /\ index = <<>>
    /\ tmpdir = <<>>
    /\ ui = ui_new
    /\ last \in {[NoOp EXCEPT !.op = "ask", !.q = q, !.lang = l, !.docs = d] :
                   q \in Questions, l \in {"english", "hindi"}, d \in ChunkLists}

ChatStep ==
    \E outcome \in ChatOutcomes :
        LET r == chat(outcome, last.q, get_context_from_docs(last.docs), last.lang)
        IN /\ last.op = "ask"
           /\ last' = [last EXCEPT !.op = "chat", !.raised = r.raised, !.none = r.none,
                                   !.msg = r.text, !.prompt = r.prompt,
                                   !.chat_outcome = outcome,
                                   !.calls = [NoCalls EXCEPT !.chat = 1]]
           /\ UNCHANGED <<rag, vs, index, tmpdir, ui>>

TestConnectionStep ==
    \E outcome \in ChatOutcomes :
        LET r == test_connection(outcome)
        IN /\ last.op = "ask"
           /\ last' = [NoOp EXCEPT !.op = "test_connection", !.ok = r.ok, !.msg = r.msg,
                                   !.prompt = r.prompt, !.chat_outcome = outcome,
                                   !.calls = [NoCalls EXCEPT !.test = 1, !.chat = 1]]
           /\ UNCHANGED <<rag, vs, index, tmpdir, ui>>

NextChat ==
    \/ ChatStep
    \/ TestConnectionStep

SpecChat == InitChat /\ [][NextChat]_vars

\* ------------------------------------------ detect_language called directly
MaxLatin == 8        \* Latin letters in a text
MaxHindi == 3        \* Devanagari letters in a text
MaxMark == 2         \* Devanagari signs that are not alphabetic
MaxOther == 1        \* other characters (digits, spaces, punctuation)

Run(c, n) == [i \in 1..n |-> c]

\* The texts: a run of each class of character, in either order.
Texts ==
    LET runs == {Run("L", a) \o Run("H", b) \o Run("M", c) \o Run("D", d) :
                   a \in 0..MaxLatin, b \in 0..MaxHindi, c \in 0..MaxMark, d \in 0..MaxOther}
    IN runs \cup {Reverse(t) : t \in runs}

InitLang ==
    /\ rag = rag_new
    /\ vs = vs_new
    /\ index = <<>>
    /\ tmpdir = <<>>
    /\ ui = ui_new
    /\ last \in {[NoOp EXCEPT !.op = "text", !.q = [chars |-> t, tok |-> "t1"]] : t \in Texts}

DetectStep ==
    /\ last.op = "text"
    /\ last' = [last EXCEPT !.op = "detect", !.lang = detect_language(last.q.chars)]
    /\ UNCHANGED <<rag, vs, index, tmpdir, ui>>

NextLang == DetectStep

SpecLang == InitLang /\ [][NextLang]_vars

\* --------------------------------------------------- the upload request (UI)
MaxUpload == 2       \* files in one upload request
MaxTemp == 2         \* scratch files the disk may hold

\* An uploaded file, and whether writing its bytes to its temporary file works.
Uploads == {[file |-> fTxt, write |-> "ok"], [file |-> fTxt, write |-> "raise"],
            [file |-> fDocx, write |-> "ok"]}
UploadLists == SeqsUpTo(Uploads, MaxUpload) \ {<<>>}

\* the temporary file of an upload: a fresh name with the extension in lower
\* case, holding the uploaded bytes
TempOf(f) == [name |-> <<"tmp", Lower(f.name[Len(f.name)])>>, load |-> f.load,
              pages |-> f.pages]

\* utils.save_uploaded_files: NamedTemporaryFile(delete=False) creates the
\* file, then the bytes are written, then its name is appended to the list.
\* temp_files is the list returned; unlisted holds the names of the files
\* that were created and whose write raised.
RECURSIVE save_uploaded_files(_)
save_uploaded_files(uploaded_files) ==
    IF uploaded_files = <<>> THEN [temp_files |-> <<>>, unlisted |-> <<>>]
    ELSE LET file == Head(uploaded_files)
             rest == save_uploaded_files(Tail(uploaded_files))
         IN IF file.write = "raise"
            THEN [temp_files |-> rest.temp_files,
                  unlisted |-> <<TempOf(file.file).name>> \o rest.unlisted]
            ELSE [temp_files |-> <<TempOf(file.file)>> \o rest.temp_files,
                  unlisted |-> rest.unlisted]

\* utils.cleanup_temp_files: the names still on disk afterwards.  unlinkOut =
\* "raise" is os.unlink raising on the first file; the loop goes on.
cleanup_temp_files(temp_files, unlinkOut) ==
    IF unlinkOut = "raise" /\ temp_files # <<>> THEN <<Head(temp_files).name>> ELSE <<>>

\* UIComponents._process_uploaded_files: save, then try: process_documents
\* and the display of its result (uiOut = "raise": an exception in the try
\* block), finally: cleanup.  main() renders the uploader only once
\* initialize_rag_system() returned true.
process_uploaded_files(uploaded_files, addOut, uiOut, unlinkOut) ==
    LET saved == save_uploaded_files(uploaded_files)
        left == saved.unlisted \o cleanup_temp_files(saved.temp_files, unlinkOut)
        chunks == dp_process_documents(saved.temp_files, "ok").chunks
    IN /\ rag.is_initialized
       /\ Len(index) + Len(chunks) <= MaxIndex
       /\ Len(tmpdir) + Len(left) <= MaxTemp
       /\ chunks = <<>> => addOut = "ok"
       /\ saved.temp_files = <<>> => unlinkOut = "ok"
       /\ Ingest(saved.temp_files, "ok", addOut)
       /\ tmpdir' = tmpdir \o left
       /\ ui' = [ui EXCEPT !.op = "upload", !.unlink_outcome = unlinkOut,
                           !.shown = IF uiOut = "raise" THEN "exception"
                                     ELSE IF last'.ok THEN "success" ELSE "error",
                           !.document_count = IF uiOut = "ok" /\ last'.ok
                                              THEN get_document_count(vs')
                                              ELSE ui.document_count]
       /\ UNCHANGED rag

UploadStep ==
    \E uploaded_files \in UploadLists, addOut \in {"ok", "raise"}, uiOut \in {"ok", "raise"},
       unlinkOut \in {"ok", "raise"} :
        process_uploaded_files(uploaded_files, addOut, uiOut, unlinkOut)

NextUI ==
    \/ InitializeStep
    \/ UploadStep

SpecUI == Init /\ [][NextUI]_vars

\* ------------------------------------------------------- one UI session
MaxExchanges == 2    \* question and answer pairs in the transcript

\* initialize_rag_system as it would be if it tried again whenever the
\* system is not initialized
initialize_rag_system_Retry(chatOut, probeOut, openOut) ==
    IF ~rag.is_initialized
    THEN /\ Initialize(chatOut, probeOut, openOut)
         /\ ui' = [ui EXCEPT !.op = "run", !.initialization_attempted = TRUE,
                             !.shown = IF last'.ok THEN "main" ELSE "stopped"]
    ELSE /\ UNCHANGED <<rag, vs, last>>
         /\ ui' = [ui EXCEPT !.op = "run",
                             !.shown = IF rag.is_initialized THEN "main" ELSE "stopped"]

\* main.initialize_rag_system and what main() does with its result: the
\* first run of the session sets initialization_attempted and calls
\* initialize(); every other run returns is_initialized.  shown is "main"
\* when the sidebar and the chat interface are rendered, "stopped" when
\* main() ends in st.stop() before them.
initialize_rag_system(chatOut, probeOut, openOut) ==
    IF ~ui.initialization_attempted
    THEN /\ Initialize(chatOut, probeOut, openOut)
         /\ ui' = [ui EXCEPT !.op = "run", !.initialization_attempted = TRUE,
                             !.shown = IF last'.ok THEN "main" ELSE "stopped"]
    ELSE /\ UNCHANGED <<rag, vs, last>>
         /\ ui' = [ui EXCEPT !.op = "run",
                             !.shown = IF rag.is_initialized THEN "main" ELSE "stopped"]

\* a run of main() without a widget event
RunStep ==
    \E chatOut \in ChatOutcomes, probeOut \in ProbeOutcomes, openOut \in OpenOutcomes :
        /\ ~test_connection(chatOut).ok => probeOut = "vector" /\ openOut = "ok"
        /\ probeOut # "vector" => openOut = "ok"
        /\ initialize_rag_system(chatOut, probeOut, openOut)
        /\ UNCHANGED <<index, tmpdir>>

\* The widgets of the sidebar and the chat input exist once a run has
\* rendered the main interface.
MainRendered == ui.initialization_attempted /\ rag.is_initialized

\* the Process Documents button with one text file, nothing failing
SessionUploadStep ==
    /\ MainRendered
    /\ process_uploaded_files(<<[file |-> fTxt, write |-> "ok"]>>, "ok", "ok", "ok")

\* _render_chat_input as it would be if the user message were appended
\* before the document count is looked at
render_chat_input_AppendFirst(prompt, searchOut, chatOut, fault) ==
    LET detected_language == detect_language(prompt.chars)
        user_message == [role |-> "user", content |-> prompt.chars,
                         detected_language |-> detected_language]
    IN IF get_document_count(vs) = 0
       THEN /\ UNCHANGED last
            /\ ui' = [ui EXCEPT !.op = "chat_input", !.shown = "upload first",
                                !.messages = Append(ui.messages, user_message)]
       ELSE /\ Query(prompt, searchOut, chatOut, fault)
            /\ ui' = [ui EXCEPT !.op = "chat_input", !.shown = "answer",
                                !.messages = ui.messages \o
                                    <<user_message,
                                      [role |-> "assistant", content |-> last'.msg,
                                       detected_language |-> detected_language]>>]

\* UIComponents._render_chat_input with a prompt submitted: without
\* documents an error is shown and nothing is appended; otherwise the user
\* message is appended, query() is called and the assistant message with
\* the answer and the same language tag is appended.
render_chat_input(prompt, searchOut, chatOut, fault) ==
    LET detected_language == detect_language(prompt.chars)
        user_message == [role |-> "user", content |-> prompt.chars,
                         detected_language |-> detected_language]
    IN IF get_document_count(vs) = 0
       THEN /\ UNCHANGED last
            /\ ui' = [ui EXCEPT !.op = "chat_input", !.shown = "upload first"]
       ELSE /\ Query(prompt, searchOut, chatOut, fault)
            /\ ui' = [ui EXCEPT !.op = "chat_input", !.shown = "answer",
                                !.messages = ui.messages \o
                                    <<user_message,
                                      [role |-> "assistant", content |-> last'.msg,
                                       detected_language |-> detected_language]>>]

\* st.chat_input returns a prompt only when it is not empty
ChatPrompts == {q \in Questions : q.chars # <<>> /\ q.tok = "t1"}

ChatInputStep ==
    \E prompt \in ChatPrompts, searchOut \in SearchOutcomes, chatOut \in {"ok", "timeout"},
       fault \in {"none", "chat"} :
        /\ MainRendered
        /\ Len(ui.messages) + 2 <= 2 * MaxExchanges
        /\ get_document_count(vs) = 0 => searchOut = "ok" /\ chatOut = "ok" /\ fault = "none"
        /\ fault # "none" => chatOut = "ok"
        /\ render_chat_input(prompt, searchOut, chatOut, fault)
        /\ UNCHANGED <<rag, vs, index, tmpdir>>

\* UIComponents._render_clear_button with the button pressed
render_clear_button(openOut) ==
    /\ Clear(openOut)
    /\ ui' = [ui EXCEPT !.op = "clear", !.messages = <<>>,
                        !.shown = IF last'.ok THEN "cleared" ELSE "error"]

ClearButtonStep ==
    \E openOut \in OpenOutcomes :
        /\ MainRendered
        /\ render_clear_button(openOut)
        /\ UNCHANGED <<rag, tmpdir>>

NextSession ==
    \/ RunStep
    \/ SessionUploadStep
    \/ ChatInputStep
    \/ ClearButtonStep

SpecSession == Init /\ [][NextSession]_vars

\* ================================================================ properties
Range(f) == {f[i] : i \in DOMAIN f}

\* C1: a query made while count() = 0, initialized or not, returns the
\* 'please upload documents' message in the language detected for the
\* question and no sources, and calls neither the search nor the chat backend.
C1_NoDocumentsQuery ==
    (last.op = "query" /\ get_document_count(vs) = 0)
        => /\ last.msg = no_docs_error(detect_language(last.q.chars))
           /\ last.docs = <<>>
           /\ last.calls.search = 0
           /\ last.calls.chat = 0

\* a Hindi question asked of a system that was never initialized
C1_Witness ==
    /\ last.op = "query"
    /\ get_document_count(vs) = 0
    /\ ~rag.is_initialized
    /\ last.q.chars = <<"H">>
    /\ last.msg = no_docs_error("hindi")

\* C2: query never raises, and when an exception surfaces at the search, the
\* context or the chat call of an operational system, the result is the API
\* error string in the detected language with no sources.
C2_QueryNeverRaises ==
    last.op = "query"
        => /\ ~last.raised
           /\ (last.fault # "none" /\ get_document_count(vs) > 0 /\ rag.is_initialized)
                => /\ last.msg = handle_api_error(<<"exception">>,
                                                  detect_language(last.q.chars))
                   /\ last.docs = <<>>

\* an exception at the chat call, for a Hindi question
C2_Witness ==
    /\ last.op = "query"
    /\ last.fault = "chat"
    /\ get_document_count(vs) > 0
    /\ rag.is_initialized
    /\ last.lang = "hindi"
    /\ Head(last.msg) = "API truti: "

\* C3: an initialize() whose testConnection() fails returns failure with the
\* prefix 'Groq initialization failed', does not call the vector store's
\* initialize (no probe, no open) and leaves the vector store's state as it was.
C3_ChatCheckedFirst ==
    [][(last'.op = "initialize" /\ ~test_connection(last'.chat_outcome).ok)
          => /\ ~last'.ok
             /\ Head(last'.msg) = "Groq initialization failed: "
             /\ last'.calls.vs_init = 0
             /\ last'.calls.probe = 0
             /\ last'.calls.open = 0
             /\ vs' = vs
             /\ index' = index]_vars

\* the chat check fails on a manager that was never initialized
C3_Witness ==
    /\ last.op = "initialize"
    /\ ~last.ok
    /\ Head(last.msg) = "Groq initialization failed: "
    /\ last.chat_outcome = "timeout"
    /\ vs = vs_new

\* C4: the orchestrator's is_initialized becomes true only in an initialize()
\* in which the connection test and the vector store's initialize both
\* succeeded, and while it is true the chat client is constructed, the
\* manager is initialized and its index handle is open.
C4_InitializedMeansReady ==
    /\ [](rag.is_initialized
            => /\ rag.groq_client = "client"
               /\ vs.is_initialized
               /\ vs.vectorstore # "None")
    /\ [][(~rag.is_initialized /\ rag'.is_initialized)
            => /\ last'.op = "initialize"
               /\ last'.ok
               /\ test_connection(last'.chat_outcome).ok
               /\ last'.calls.probe = 1
               /\ last'.calls.open = 1
               /\ vs'.is_initialized]_vars

\* initialized, and a later clear could not open the index again
C4_Witness ==
    /\ rag.is_initialized
    /\ last.op = "clear"
    /\ ~last.ok

\* C5: after clear() on a ready manager that has had chunks added, count()
\* is 0 and the search that follows returns nothing: no chunk ingested
\* before remains retrievable.
C5_ClearThenSearchEmpty ==
    [][(last.op = "vs_clear" /\ vs.is_initialized /\ index # <<>> /\ last'.op = "vs_search")
          => /\ get_document_count(vs) = 0
             /\ last'.docs = <<>>]_vars

TokenIn(tok, chunk) == \E i \in 1..Len(chunk.text) : chunk.text[i] = tok

\* C6: on an initialized system with all backends up, a query for a token
\* right after a successful ingest of a document containing it returns among
\* its sources a chunk of that ingest that contains the token.
C6_IngestThenRetrieve ==
    [][(/\ last.op = "ingest" /\ last.ok
        /\ last'.op = "query"
        /\ last'.fault = "none" /\ last'.index_outcome = "ok" /\ last'.chat_outcome = "ok"
        /\ \E c \in Range(last.docs) : TokenIn(last'.q.tok, c))
          => \E c \in Range(last'.docs) : c \in Range(last.docs) /\ TokenIn(last'.q.tok, c)]_vars

\* a query answered from an index that also holds chunks without the token
C6_Witness ==
    /\ last.op = "query"
    /\ last.chat_outcome = "ok" /\ last.index_outcome = "ok" /\ last.fault = "none"
    /\ \E c \in Range(last.docs) : TokenIn(last.q.tok, c)
    /\ \E c \in Range(index) : ~TokenIn(last.q.tok, c)

\* a path that yields documents: a supported extension and a loader that works
Loads(f) == f.name[Len(f.name)] \in {"pdf", "PDF", "txt", "TXT"} /\ f.load = "ok"

\* C7: a failing or unsupported path never aborts the batch: process(paths)
\* succeeds exactly when some path loaded a document and the split produced a
\* chunk, there is one error entry per failing path, its count is in the
\* success message, and when every path fails the result is a failure
\* without chunks.
C7_FailureIsolation ==
    last.op = "process"
        => LET paths == last.given
               good == {i \in 1..Len(paths) : Loads(paths[i])}
               bad == {i \in 1..Len(paths) : ~Loads(paths[i])}
               hasText == \E i \in good : \E j \in 1..Len(paths[i].pages) :
                              paths[i].pages[j] # <<>>
           IN /\ last.ok <=> (hasText /\ last.fault = "none")
              /\ last.ok <=> last.docs # <<>>
              /\ Len(last.errors) = Cardinality(bad)
              /\ \A i \in good : \A j \in 1..Len(paths[i].pages) :
                    paths[i].pages[j] # <<>> /\ last.ok
                       => \E c \in Range(last.docs) : c.src = paths[i].name
              /\ (last.ok /\ bad # {})
                    => SubSeq(last.msg, Len(last.msg) - 2, Len(last.msg))
                         = <<" (with ">> \o Str(Cardinality(bad)) \o <<" errors)">>
              /\ (last.ok /\ bad = {}) => last.msg[Len(last.msg)] = " document chunks"
              /\ good = {} => ~last.ok /\ last.docs = <<>>

\* three paths, the unsupported one first: the two others are processed
C7_Witness ==
    /\ last.op = "process"
    /\ last.ok
    /\ Len(last.given) = 3
    /\ ~Loads(last.given[1])
    /\ Len(last.errors) = 1
    /\ \E c \in Range(last.docs) : c.src = last.given[3].name

\* C8: add(chunks) on a manager that is not ready, or with no chunks, fails
\* and changes neither the index nor the mirror; on a ready manager with
\* chunks that the index accepts, the chunks are appended in order to the
\* index and to the mirror, count() grows by their number and the success
\* message carries that number.
C8_AddContract ==
    [][last'.op = "vs_add"
          => IF ~vs.is_initialized \/ last'.docs = <<>>
             THEN ~last'.ok /\ index' = index /\ vs' = vs
             ELSE last'.index_outcome = "ok"
                    => /\ last'.ok
                       /\ index' = index \o last'.docs
                       /\ vs'.documents = vs.documents \o last'.docs
                       /\ get_document_count(vs') = get_document_count(vs) + Len(last'.docs)
                       /\ last'.msg = <<"Added ">> \o Str(Len(last'.docs))
                                        \o <<" document chunks to vector store">>]_vars

\* a successful add of two different chunks
C8_Witness ==
    /\ last.op = "vs_add"
    /\ last.ok
    /\ Len(last.docs) = 2
    /\ last.docs[1] # last.docs[2]
    /\ get_document_count(vs) = 2
    /\ last.msg[2] = "2"

\* C9: search(query, k) never raises; it returns nothing when the manager is
\* not ready or the index call fails, and at most k chunks otherwise, k
\* being the configured top-k when omitted.
C9_SearchContract ==
    last.op = "vs_search"
        => /\ ~last.raised
           /\ (~vs.is_initialized \/ last.index_outcome = "raise") => last.docs = <<>>
           /\ Len(last.docs) <= (IF last.k = <<>> THEN SimilaritySearchK ELSE last.k[1])

\* C10: answer() returns a value for every outcome of the backend: 200 with a
\* well-formed or a malformed body, another status, a timeout, a refused
\* connection, any other exception.
C10_ChatNeverRaises ==
    last.op = "chat" => ~last.raised /\ (~last.none => last.msg # <<>>)

\* a malformed 200 body answered in Hindi
C10_Witness ==
    /\ last.op = "chat"
    /\ last.chat_outcome = "malformed"
    /\ last.lang = "hindi"
    /\ Head(last.msg) = "API truti: "

ApiPrefix(language) == IF language = "hindi" THEN "API truti: " ELSE "API Error: "
ConnectionPrefix(language) ==
    IF language = "hindi" THEN "connection truti: " ELSE "Connection Error: "

\* C11: in either language, a non-200 response yields a string that holds
\* the word "Error" and the status code, a timeout or a refused connection
\* yields a connection-error string different from the API-error string,
\* and both start with the prefix of the language passed in.
C11_ErrorMapping ==
    last.op = "chat"
        => /\ last.chat_outcome = "non200"
                => /\ ContainsError(last.msg)
                   /\ \E i \in 1..Len(last.msg) : last.msg[i] = "500"
                   /\ Head(last.msg) = ApiPrefix(last.lang)
           /\ last.chat_outcome \in {"timeout", "connection_refused"}
                => /\ Head(last.msg) = ConnectionPrefix(last.lang)
                   /\ Head(last.msg) \notin {ApiPrefix("hindi"), ApiPrefix("english")}
                   /\ last.msg # chat_response("non200", last.lang).text
                   /\ Len(last.msg) = 2

\* a refused connection reported in Hindi
C11_Witness ==
    /\ last.op = "chat"
    /\ last.chat_outcome = "connection_refused"
    /\ last.lang = "hindi"
    /\ last.msg = <<"connection truti: ", "Failed to connect to Groq API">>

\* C12: detect(text) returns secondary exactly when the text has an
\* alphabetic character and the number of characters in U+0900..U+097F
\* divided by the number of alphabetic characters is strictly greater than
\* the threshold; in every other case (no text, no alphabetic character, a
\* ratio equal to the threshold) it returns primary.
C12_DetectLanguage ==
    last.op = "detect"
        => LET t == last.q.chars
               alphabetic == Cardinality({i \in 1..Len(t) : t[i] \in {"L", "H"}})
               devanagari == Cardinality({i \in 1..Len(t) : t[i] \in {"H", "M"}})
           IN /\ last.lang \in {"hindi", "english"}
              /\ last.lang = "hindi"
                    <=> (alphabetic > 0 /\ devanagari * ThresholdDen > ThresholdNum * alphabetic)

\* three characters of the block among ten alphabetic ones: the ratio is the
\* threshold, and one of the three is a sign that is not alphabetic
C12_Witness ==
    /\ last.op = "detect"
    /\ CountIn(last.q.chars, {"L", "H"}) = 10
    /\ CountIn(last.q.chars, {"H", "M"}) = 3
    /\ CountIn(last.q.chars, {"M"}) = 1
    /\ last.lang = "english"

\* C13: ingest(paths) on a system that is not initialized fails with the
\* 'not initialized' message and calls neither the document processor nor
\* the vector store; when process fails, add is not called and count() is
\* unchanged; it succeeds only when both stages succeed, and then its
\* message is the processing message followed by the add message.
C13_IngestGated ==
    [][last'.op = "ingest"
         => LET p == dp_process_documents(last'.given,
                                          IF last'.fault = "split" THEN "raise" ELSE "ok")
            IN /\ ~rag.is_initialized
                    => /\ ~last'.ok
                       /\ last'.msg = <<"RAG system not initialized">>
                       /\ last'.calls.process = 0
                       /\ last'.calls.add = 0
                       /\ vs' = vs
                       /\ index' = index
               /\ (rag.is_initialized /\ ~p.ok)
                    => /\ ~last'.ok
                       /\ last'.calls.process = 1
                       /\ last'.calls.add = 0
                       /\ get_document_count(vs') = get_document_count(vs)
                       /\ index' = index
               /\ last'.ok
                    => /\ rag.is_initialized
                       /\ p.ok
                       /\ last'.index_outcome = "ok"
                       /\ last'.calls.process = 1
                       /\ last'.calls.add = 1
                       /\ last'.msg = p.msg \o <<". ", "Added ">> \o Str(Len(p.chunks))
                                         \o <<" document chunks to vector store">>
               /\ (rag.is_initialized /\ p.ok /\ last'.index_outcome = "ok") => last'.ok]_vars

\* a batch with an unsupported path, ingested: both messages in the result
C13_Witness ==
    /\ last.op = "ingest"
    /\ last.ok
    /\ last.errors # <<>>
    /\ \E i \in 1..Len(last.msg) : last.msg[i] = ". "
    /\ last.msg[Len(last.msg)] = " document chunks to vector store"

\* C14: every temporary file created for an upload request has been deleted
\* when the request finishes (the deletions themselves working), whether
\* processing succeeded, failed or raised, and also when the write of an
\* uploaded file to its temporary file failed.
C14_ScratchCleanup ==
    [][(ui'.op = "upload" /\ ui'.unlink_outcome = "ok") => tmpdir' = tmpdir]_vars

\* the name ends with a dot followed by pdf or txt, in any case
EndsWithExtension(name) == Len(name) >= 2 /\ Lower(name[Len(name)]) \in {"pdf", "txt"}

\* C15: only a file whose name ends with .pdf or .txt (in any case) is
\* accepted: for every other name, a name without a dot such as "pdf"
\* included, validate returns false and load reports an 'Unsupported file
\* type' entry for the path.
C15_ExtensionWhitelist ==
    /\ last.op = "validate" => (last.ok <=> EndsWithExtension(last.given[1].name))
    /\ last.op = "process"
         => \A i \in 1..Len(last.given) :
               ~EndsWithExtension(last.given[i].name)
                  => \E j \in 1..Len(last.errors) :
                        last.errors[j] = <<"Unsupported file type: ">>
                                           \o PathStr(last.given[i].name)

ChunkTexts(docs) == [i \in 1..Len(docs) |-> docs[i].text]

\* C16 as stated: for chunk_size S and chunk_overlap O with 0 <= O < S,
\* empty input yields no chunk, every chunk but the last has at most S
\* characters, and each pair of adjacent chunks shares exactly O characters:
\* the last O characters of a chunk are the first O of the next.
C16_ExactOverlapEverywhere ==
    last.op = "split"
        => LET S == last.config[1]
               O == last.config[2]
               c == ChunkTexts(last.docs)
           IN /\ last.given[1].text = <<>> => c = <<>>
              /\ \A i \in 1..(Len(c) - 1) :
                    /\ Len(c[i]) <= S
                    /\ Len(c[i]) >= O
                    /\ Len(c[i + 1]) >= O
                    /\ SubSeq(c[i], Len(c[i]) - O + 1, Len(c[i])) = SubSeq(c[i + 1], 1, O)

\* C16, amended: empty input yields no chunk and every chunk has between 1
\* and S characters; for a text without white space the chunks are a
\* sliding window: every chunk but the last has S characters, each chunk
\* starts with the last O characters of the one before and adds at least
\* one, and the chunks without these repeated characters make up the text.
C16_SlidingWindow ==
    last.op = "split"
        => LET S == last.config[1]
               O == last.config[2]
               text == last.given[1].text
               c == ChunkTexts(last.docs)
           IN /\ text = <<>> => c = <<>>
              /\ \A i \in 1..Len(c) : Len(c[i]) >= 1 /\ Len(c[i]) <= S
              /\ (\A i \in 1..Len(text) : text[i] # " ")
                    => /\ \A i \in 1..(Len(c) - 1) :
                             /\ Len(c[i]) = S
                             /\ Len(c[i + 1]) > O
                             /\ SubSeq(c[i], S - O + 1, S) = SubSeq(c[i + 1], 1, O)
                       /\ Flatten([i \in 1..Len(c) |->
                                     IF i = 1 THEN c[i] ELSE SubSeq(c[i], O + 1, Len(c[i]))])
                            = text

\* a text without white space cut into three chunks that overlap
C16_Witness ==
    /\ last.op = "split"
    /\ last.config[2] > 0
    /\ \A i \in 1..Len(last.given[1].text) : last.given[1].text[i] # " "
    /\ Len(last.docs) = 3
    /\ last.docs[1].text # last.docs[2].text

\* C17: a ready manager whose add, search or clear fails at the embedding
\* or index call is no longer ready afterwards, and a manager that is not
\* ready becomes ready only through a successful initialize().
C17_ErrorMovesToFailed ==
    [][/\ (/\ vs.is_initialized
            /\ last'.op \in {"vs_add", "vs_search", "vs_clear"}
            /\ last'.index_outcome # "ok"
            /\ last'.calls.add + last'.calls.search + last'.calls.open > 0)
              => ~vs'.is_initialized
       /\ (~vs.is_initialized /\ vs'.is_initialized)
              => last'.op = "vs_initialize" /\ last'.ok]_vars

\* the parts of a message that tell the operator to have Ollama running
OllamaAdvice == {"Ollama embeddings failed - make sure Ollama is running",
                 ". Make sure Ollama is running with 'ollama serve'"}

\* C18: initialize() of the manager probes the embedding backend before it
\* opens the index: when the probe raises or returns an empty vector the
\* call fails, the index is not opened, the index handle and is_initialized
\* are as before and the message says to make sure Ollama is running; the
\* index is opened, and is_initialized becomes true, only after a probe
\* that succeeded.
C18_ProbeBeforeOpen ==
    [][/\ last'.op = "vs_initialize"
            => /\ last'.calls.probe = 1
               /\ last'.probe_outcome # "vector"
                    => /\ ~last'.ok
                       /\ last'.calls.open = 0
                       /\ vs'.vectorstore = vs.vectorstore
                       /\ vs'.is_initialized = vs.is_initialized
                       /\ \E i \in 1..Len(last'.msg) : last'.msg[i] \in OllamaAdvice
               /\ last'.calls.open = 1 => last'.probe_outcome = "vector"
               /\ (last'.probe_outcome = "vector" /\ last'.index_outcome = "ok")
                    => /\ last'.ok
                       /\ last'.calls.open = 1
                       /\ vs'.is_initialized
                       /\ vs'.vectorstore = "opened by initialize"
       /\ (~vs.is_initialized /\ vs'.is_initialized)
            => last'.op = "vs_initialize" /\ last'.probe_outcome = "vector"]_vars

\* the probe raises on a manager that was never initialized
C18_Witness ==
    /\ last.op = "vs_initialize"
    /\ last.probe_outcome = "raise"
    /\ ~last.ok
    /\ Head(last.msg) = "Ollama Error: "
    /\ ~vs.is_initialized
    /\ vs.vectorstore = "None"

\* C19: testConnection() makes one answer() call with the fixed greeting,
\* in the primary language and without context, and succeeds exactly when
\* the string returned does not hold the word "Error": it fails for every
\* failure of the backend (non-200, timeout, refused connection, malformed
\* body) and also for a 200 answer whose text holds "Error".
C19_TestConnection ==
    last.op = "test_connection"
        => LET r == chat_response(last.chat_outcome, "english")
           IN /\ last.calls.chat = 1
              /\ last.prompt = create_prompt(Hello, <<>>, "english")
              /\ (~r.raised /\ ~r.none) => (last.ok <=> ~ContainsError(r.text))
              /\ last.chat_outcome \in {"non200", "timeout", "connection_refused",
                                         "malformed", "other"} => ~last.ok
              /\ last.chat_outcome = "ok_error_text" => ~last.ok
              /\ last.chat_outcome = "ok" => last.ok

\* a 200 answer that talks about Error codes is reported as a failure
C19_Witness ==
    /\ last.op = "test_connection"
    /\ last.chat_outcome = "ok_error_text"
    /\ ~last.ok
    /\ last.msg = <<"an answer about ", "Error", " codes">>

\* C20: in the operational branch of query (count() > 0, initialized, no
\* exception) there is one search call and one chat call, the context given
\* to the chat client is the texts of the chunks retrieved, in result order,
\* joined by a blank line, and the sources returned are the chunks the
\* search returned, in the same order.
C20_QueryPipeline ==
    (/\ last.op = "query"
     /\ get_document_count(vs) > 0
     /\ rag.is_initialized
     /\ last.fault = "none")
        => LET found == vs_similarity_search(vs, index, last.q, <<>>, last.index_outcome).docs
               n == Len(last.docs)
           IN /\ last.calls = [NoCalls EXCEPT !.search = 1, !.chat = 1]
              /\ last.docs = found
              /\ last.prompt.context
                    = Flatten([i \in 1..n |-> IF i = 1 THEN last.docs[i].text
                                              ELSE <<"\n\n">> \o last.docs[i].text])
              /\ last.prompt.question = last.q
              /\ last.prompt.instruction = system_prompt(last.lang)

\* two different chunks retrieved and joined
C20_Witness ==
    /\ last.op = "query"
    /\ last.fault = "none"
    /\ rag.is_initialized
    /\ Len(last.docs) = 2
    /\ last.docs[1] # last.docs[2]
    /\ last.prompt.context = last.docs[1].text \o <<"\n\n">> \o last.docs[2].text
    /\ last.chat_outcome = "ok"

\* C21: when count() > 0 and the system is initialized but the search fails
\* or retrieves nothing, query still calls the chat client exactly once,
\* with the empty context (the prompt is the instruction and the question,
\* without a context section), and returns the chat client's answer with
\* the empty list of sources.
C21_DegradeGracefully ==
    (/\ last.op = "query"
     /\ get_document_count(vs) > 0
     /\ rag.is_initialized
     /\ last.fault = "none"
     /\ vs_similarity_search(vs, index, last.q, <<>>, last.index_outcome).docs = <<>>)
        => /\ last.calls.chat = 1
           /\ last.calls.search = 1
           /\ last.prompt = create_prompt(last.q, <<>>, last.lang)
           /\ last.prompt.context_label = ""
           /\ last.prompt.context = <<>>
           /\ last.msg = chat_response(last.chat_outcome, last.lang).text
           /\ last.docs = <<>>
           /\ ~last.raised

\* the search raised, the chat client answered a Hindi question
C21_Witness ==
    /\ last.op = "query"
    /\ get_document_count(vs) > 0
    /\ rag.is_initialized
    /\ last.index_outcome = "raise"
    /\ last.chat_outcome = "ok"
    /\ last.lang = "hindi"
    /\ last.calls.chat = 1
    /\ last.msg = <<"an answer">>
    /\ last.docs = <<>>
    /\ last.prompt.context_label = ""

\* the backend operations counted in the record of an operation
BackendOps == {"chat", "probe", "add", "search", "open"}

\* the answers of query that report a failure of the chat client
IsErrorAnswer(msg, language) ==
    msg # <<>> /\ Head(msg) \in {ApiPrefix(language), ConnectionPrefix(language)}

\* the part of C22 that the code satisfies: one attempt at most, and the
\* failures of chat, probe, add and open are the operation's failure
AttemptedOnceAndSurfaced ==
    last.op \in {"initialize", "ingest", "query", "clear"}
        => /\ \A c \in BackendOps : last.calls[c] <= 1
           /\ last.op = "initialize"
                => /\ (last.calls.chat = 1 /\ ~test_connection(last.chat_outcome).ok)
                        => ~last.ok /\ last.calls.probe = 0 /\ last.calls.open = 0
                   /\ (last.calls.probe = 1 /\ last.probe_outcome # "vector")
                        => ~last.ok /\ last.calls.open = 0
                   /\ (last.calls.open = 1 /\ last.index_outcome = "raise") => ~last.ok
           /\ (last.op = "ingest" /\ last.calls.add = 1 /\ last.index_outcome # "ok")
                => ~last.ok
           /\ (last.op = "clear" /\ last.calls.open = 1 /\ last.index_outcome = "raise")
                => ~last.ok
           /\ (last.op = "query" /\ last.calls.chat = 1 /\ last.fault = "none"
                 /\ last.chat_outcome # "ok")
                => IsErrorAnswer(last.msg, last.lang)

\* C22 as stated: within one invocation of initialize, ingest, query or
\* clear each backend operation (chat completion, embedding probe, index
\* add, index search, index open) is attempted at most once, and a failed
\* attempt is that invocation's failure result, the failed search of a
\* query included.
C22_FailureAlwaysSurfaced ==
    /\ AttemptedOnceAndSurfaced
    /\ (last.op = "query" /\ last.calls.search = 1 /\ last.fault = "none"
          /\ last.index_outcome = "raise")
         => IsErrorAnswer(last.msg, last.lang)

\* C22 (amended): each backend operation is attempted at most once in an
\* invocation; a failed chat completion, probe, index add or index open is
\* the invocation's failure result without a second attempt, and a failed
\* index search of a query is not repeated either but is treated as a
\* search without results: the chat client is still called, once, and its
\* answer is returned with no sources.
C22_NoRetries ==
    /\ AttemptedOnceAndSurfaced
    /\ (last.op = "query" /\ last.calls.search = 1 /\ last.fault = "none"
          /\ last.index_outcome = "raise")
         => /\ last.calls.chat = 1
            /\ last.docs = <<>>
            /\ last.msg = chat_response(last.chat_outcome, last.lang).text

\* an ingest whose one call of the index failed after a partial write
C22_Witness ==
    /\ last.op = "ingest"
    /\ last.index_outcome = "raise_partial"
    /\ last.calls.add = 1
    /\ ~last.ok
    /\ Head(last.msg) = "Vector store error: "

\* C23: with the orchestrator's operations only, count() > 0 implies that
\* the orchestrator is initialized, in every reachable state; so no query
\* ever takes the 'system not ready' branch.
C23_CountImpliesInitialized ==
    /\ get_document_count(vs) > 0 => rag.is_initialized
    /\ last.op = "query"
         => /\ last.msg # not_initialized_msg(last.lang)
            /\ get_document_count(vs) > 0 => last.calls.search = 1

\* a query answered from the documents: the operational branch is taken
C23_Witness ==
    /\ last.op = "query"
    /\ get_document_count(vs) > 0
    /\ rag.is_initialized
    /\ last.calls.search = 1
    /\ last.calls.chat = 1
    /\ last.docs # <<>>

\* C24: the readiness flags are monotone: no operation sets the
\* orchestrator's or the manager's is_initialized back to false once it is
\* true; an initialize() that fails after an earlier success leaves
\* is_initialized true, and ingest and query are still accepted then.
C24_ReadyMonotone ==
    [][/\ rag.is_initialized => rag'.is_initialized
       /\ vs.is_initialized => vs'.is_initialized
       /\ (rag.is_initialized /\ last'.op = "ingest")
            => last'.msg # <<"RAG system not initialized">>
       /\ (rag.is_initialized /\ last'.op = "query")
            => last'.msg # not_initialized_msg(last'.lang)
       /\ (rag.is_initialized /\ last'.op = "ingest" /\ last'.docs # <<>>)
            => last'.calls.add = 1]_vars

\* initialize() has failed on a system that was initialized before
C24_Witness ==
    /\ last.op = "initialize"
    /\ ~last.ok
    /\ rag.is_initialized
    /\ vs.is_initialized

\* C25: the mirror is a lower bound on the persistent index: in every state
\* reachable by initialize, add (succeeding or failing), clear and process
\* restart, count() is at most the number of chunks in the index.
C25_MirrorLowerBound ==
    get_document_count(vs) <= Len(index)

\* an add has succeeded and the mirror still holds fewer chunks than the
\* index: the others are from before a restart or from a failed add
C25_Witness ==
    /\ last.op = "vs_add"
    /\ last.ok
    /\ get_document_count(vs) > 0
    /\ get_document_count(vs) < Len(index)

\* C26: a restart leaves count() = 0 and the index as it was; while no
\* ingest succeeds count() stays 0, also through a successful initialize();
\* and every query made while count() = 0 returns the 'please upload
\* documents' message with no sources and reaches neither the search nor
\* the chat client, even when the index still holds chunks.
C26_RestartForgetsDocuments ==
    [][/\ last'.op = "restart"
            => /\ get_document_count(vs') = 0
               /\ index' = index
               /\ ~rag'.is_initialized
       /\ (get_document_count(vs) = 0 /\ ~(last'.op = "ingest" /\ last'.ok))
            => get_document_count(vs') = 0
       /\ (get_document_count(vs) = 0 /\ last'.op = "query")
            => /\ last'.msg = no_docs_error(last'.lang)
               /\ last'.docs = <<>>
               /\ last'.calls = NoCalls]_vars

\* Without clear, only a restart empties the mirror, and the second chunk of
\* the PDF enters the index only by a successful ingest: the system was
\* restarted after that ingest and initialized again, and the query is
\* refused although the index holds the chunks.
C26_Witness ==
    /\ last.op = "query"
    /\ rag.is_initialized
    /\ vs.is_initialized
    /\ get_document_count(vs) = 0
    /\ \E i \in 1..Len(index) : index[i].text = <<"t2", "t2">>
    /\ last.msg = no_docs_error(last.lang)
    /\ last.calls.search = 0
    /\ last.calls.chat = 0

\* the failures of the chat backend that chat() turns into a string
ChatFailures == {"non200", "timeout", "connection_refused"}

\* a query past both checks, with the chunks its search retrieved
Operational == last.op = "query" /\ get_document_count(vs) > 0 /\ rag.is_initialized
Retrieved == vs_similarity_search(vs, index, last.q, <<>>, last.index_outcome).docs

\* C27 as stated: when the chat backend fails without raising inside query
\* (non-200, timeout, refused connection), query returns that error string
\* with the non-empty list of the chunks retrieved as sources; an error
\* string with no sources is returned only when an exception reached
\* query's own handler.
C27_ErrorAlwaysWithSources ==
    /\ (Operational /\ last.fault = "none" /\ last.chat_outcome \in ChatFailures)
         => /\ last.msg = chat_response(last.chat_outcome, last.lang).text
            /\ last.docs # <<>>
    /\ (Operational /\ IsErrorAnswer(last.msg, last.lang) /\ last.docs = <<>>)
         => last.fault # "none"

\* C27 (amended): when the chat backend fails without raising inside query,
\* query returns that error string with the chunks the search retrieved as
\* sources, a non-empty list unless the search failed or found nothing;
\* when the search retrieved chunks, an error string with no sources is
\* returned only when an exception reached query's own handler.
C27_ChatErrorKeepsSources ==
    /\ (Operational /\ last.fault = "none" /\ last.chat_outcome \in ChatFailures)
         => /\ last.msg = chat_response(last.chat_outcome, last.lang).text
            /\ IsErrorAnswer(last.msg, last.lang)
            /\ last.docs = Retrieved
            /\ last.index_outcome = "ok" => last.docs # <<>>
    /\ (Operational /\ IsErrorAnswer(last.msg, last.lang) /\ last.docs = <<>>
          /\ Retrieved # <<>>)
         => /\ last.fault # "none"
            /\ last.msg = handle_api_error(<<"exception">>, last.lang)

\* the chat request timed out on a Hindi question: the connection error in
\* Hindi comes back with the chunks retrieved
C27_Witness ==
    /\ Operational
    /\ last.fault = "none"
    /\ last.chat_outcome = "timeout"
    /\ last.lang = "hindi"
    /\ Head(last.msg) = "connection truti: "
    /\ last.docs # <<>>

\* C28: the manager's clear() empties the mirror before it opens the index
\* again: when the opening fails clear() returns failure but count() is
\* already 0 and the index handle and is_initialized are as before; when
\* the manager was never initialized clear() returns success without
\* touching the index.
C28_ClearEmptiesMirrorFirst ==
    [][last'.op = "vs_clear"
         => /\ get_document_count(vs') = 0
            /\ vs'.is_initialized = vs.is_initialized
            /\ index' = index
            /\ (vs.is_initialized /\ last'.index_outcome = "raise")
                 => /\ ~last'.ok
                    /\ Head(last'.msg) = "Error clearing documents: "
                    /\ vs'.vectorstore = vs.vectorstore
                    /\ last'.calls.open = 1
            /\ (vs.is_initialized /\ last'.index_outcome = "ok")
                 => /\ last'.ok
                    /\ vs'.vectorstore = "opened by clear"
                    /\ last'.calls.open = 1
            /\ ~vs.is_initialized
                 => /\ last'.ok
                    /\ last'.calls = NoCalls
                    /\ vs'.vectorstore = "None"]_vars

\* the opening failed: the documents are gone from the mirror, the handle is
\* still the one initialize() opened and the index still holds the chunks
C28_Witness ==
    /\ last.op = "vs_clear"
    /\ ~last.ok
    /\ get_document_count(vs) = 0
    /\ vs.is_initialized
    /\ vs.vectorstore = "opened by initialize"
    /\ index # <<>>

\* C29: in one UI session initialize() is attempted at most once:
\* initialization_attempted is set by the run that makes the attempt and is
\* never cleared; once it is set no run calls initialize() again, so after
\* a failed first attempt every later run stops before the main interface
\* and the system never becomes initialized in this session.
C29_InitializeOncePerSession ==
    [][/\ ui.initialization_attempted
            => /\ ui'.initialization_attempted
               /\ rag' = rag
               /\ vs'.is_initialized = vs.is_initialized
               /\ ~(last'.op = "initialize" /\ last' # last)
       /\ (~ui.initialization_attempted /\ last'.op = "initialize")
            => /\ ui'.initialization_attempted
               /\ last'.calls.test = 1
       /\ (ui.initialization_attempted /\ ~rag.is_initialized)
            => /\ ~rag'.is_initialized
               /\ ui'.op = "run"
               /\ ui'.shown = "stopped"
               /\ ui'.messages = <<>>]_vars

\* the one attempt has failed at the embedding probe and the run stopped
C29_Witness ==
    /\ ui.initialization_attempted
    /\ ~rag.is_initialized
    /\ ui.shown = "stopped"
    /\ last.op = "initialize"
    /\ ~last.ok
    /\ last.calls.probe = 1

\* the transcript alternates user and assistant messages, and an assistant
\* message has the language tag of the user message before it, which is the
\* language detected in that message
WellFormed(messages) ==
    /\ Len(messages) % 2 = 0
    /\ \A i \in 1..Len(messages) :
          IF i % 2 = 1
          THEN /\ messages[i].role = "user"
               /\ messages[i].detected_language = detect_language(messages[i].content)
          ELSE /\ messages[i].role = "assistant"
               /\ messages[i].detected_language = messages[i - 1].detected_language

\* C30: after any sequence of chat inputs and clear actions the transcript
\* is well-formed: its length is even, user and assistant messages
\* alternate, each assistant message has the language tag of the user
\* message before it; a chat input while count() = 0 appends nothing, and
\* clear empties the transcript whether or not the documents were cleared.
C30_TranscriptWellFormed ==
    /\ []WellFormed(ui.messages)
    /\ [][/\ (ui'.op = "chat_input" /\ get_document_count(vs) = 0)
               => ui'.messages = ui.messages /\ last' = last
          /\ (ui'.op = "chat_input" /\ get_document_count(vs) > 0)
               => /\ Len(ui'.messages) = Len(ui.messages) + 2
                  /\ SubSeq(ui'.messages, 1, Len(ui.messages)) = ui.messages
                  /\ ui'.messages[Len(ui'.messages)].content = last'.msg
          /\ ui'.op = "clear" => ui'.messages = <<>>
          /\ ui'.op \in {"run", "upload"} => ui'.messages = ui.messages]_vars

\* two exchanges, the first in Hindi with the chat client's connection
\* error as the answer, the second in English
C30_Witness ==
    /\ Len(ui.messages) = 4
    /\ ui.messages[1].detected_language = "hindi"
    /\ ui.messages[2].role = "assistant"
    /\ ui.messages[2].detected_language = "hindi"
    /\ Head(ui.messages[2].content) = "connection truti: "
    /\ ui.messages[3].role = "user"
    /\ ui.messages[3].detected_language = "english"
    /\ ui.messages[4].detected_language = "english"

====
